---------------------------- MODULE Spec2Model ----------------------------
(***************************************************************************)
(* A model of the serialization codec of the IR graph engine               *)
(* (src/ngraph/core/src/pass/serialize.cpp): the constant writer with its  *)
(* weak-hash deduplication, the three serialization passes (Serialize,     *)
(* StreamSerialize, Hash) and the layer and edge emission of               *)
(* ngfunction_2_ir.                                                        *)
(*                                                                         *)
(* Integers of the program are 64 bits wide (size_t, uint64_t on the       *)
(* 64-bit build).  The model keeps that width: a 64-bit value is a         *)
(* sequence of cel_size bytes, least significant byte first (the byte      *)
(* order in which a little-endian build reads a size_t from a buffer),     *)
(* and the arithmetic below wraps at 2^64.                                 *)
(***************************************************************************)
EXTENDS Integers, Sequences, FiniteSets, TLC

\* ------------------------------------------------------------------------
\* Bounds of the model
\* ------------------------------------------------------------------------

\* The number of ConstantWriter::write calls of one writer.
MaxWrites == 3

\* The length of the xml text a document is saved as.
MaxXmlLen == 2

\* The largest static length of a sliced axis, the largest magnitude of a
\* small start or stop, the number of validations of one node.
MaxDim == 3
MaxIndex == 3
MaxValidations == 2

\* The threads that construct nodes, and the nodes they construct in all.
NumThreads == 3
MaxNodes == 4

\* The largest dimension of a tensor that is reversed, other than those of
\* the reference tests.
MaxReverseDim == 2

\* The number of operations on an ONNXModelEditor.
MaxEdits == 3

\* The number of write calls on a hash stream.
MaxChunks == 3

\* The number of nodes of a program.
MaxProgramNodes == 4

\* The most uses (a node and a user of it) a program has.
MaxUses == 3

\* ------------------------------------------------------------------------
\* 64-bit arithmetic on little-endian byte sequences
\* ------------------------------------------------------------------------

\* sizeof(size_t): the chunk width of hash_combine.
cel_size == 8

Byte == 0..255

RECURSIVE XorBits(_, _, _)
\* a ^ b on n-bit operands
XorBits(a, b, n) ==
    IF n = 0 THEN 0
    ELSE (((a % 2) + (b % 2)) % 2) + 2 * XorBits(a \div 2, b \div 2, n - 1)

\* static_cast<size_t>(n), for 0 <= n < 2^31
WordOfNat(n) ==
    [i \in 1..cel_size |->
        IF i = 1 THEN n % 256
        ELSE IF i = 2 THEN (n \div 256) % 256
        ELSE IF i = 3 THEN (n \div 65536) % 256
        ELSE IF i = 4 THEN (n \div 16777216) % 256
        ELSE 0]

\* a ^ b on size_t
WordXor(a, b) == [i \in 1..cel_size |-> XorBits(a[i], b[i], 8)]

RECURSIVE Carry(_, _, _)
\* the carry into byte i of a + b
Carry(a, b, i) ==
    IF i = 1 THEN 0 ELSE (a[i - 1] + b[i - 1] + Carry(a, b, i - 1)) \div 256

\* a + b on size_t: the sum modulo 2^64
WordAdd(a, b) == [i \in 1..cel_size |-> (a[i] + b[i] + Carry(a, b, i)) % 256]

\* seed << 6 on size_t
WordShl6(a) ==
    [i \in 1..cel_size |->
        ((a[i] * 64) % 256) + (IF i > 1 THEN a[i - 1] \div 4 ELSE 0)]

\* seed >> 2 on size_t
WordShr2(a) ==
    [i \in 1..cel_size |->
        (a[i] \div 4) + (IF i < cel_size THEN (a[i + 1] % 4) * 64 ELSE 0)]

\* 0x9e3779b9, the magic number of hash_combine
GoldenRatio == <<185, 121, 55, 158, 0, 0, 0, 0>>

\* seed ^= d + 0x9e3779b9 + (seed << 6) + (seed >> 2)
hash_step(seed, d) ==
    WordXor(seed, WordAdd(WordAdd(WordAdd(d, GoldenRatio), WordShl6(seed)),
                          WordShr2(seed)))

\* The k-th size_t of the buffer (k from 0): *(data + k)
ChunkAt(v, k) == [i \in 1..cel_size |-> v[cel_size * k + i]]

\* last_bytes: the size % cel_size trailing bytes, copied over a zero size_t
LastBytes(v, size) ==
    [i \in 1..cel_size |->
        IF i <= (size % cel_size) THEN v[cel_size * (size \div cel_size) + i]
        ELSE 0]

RECURSIVE hash_chunks(_, _, _, _)
\* the loop of hash_combine over the whole chunks k .. n-1
hash_chunks(seed, v, k, n) ==
    IF k >= n THEN seed
    ELSE hash_chunks(hash_step(seed, ChunkAt(v, k)), v, k + 1, n)

\* size_t hash_combine(const void* v, int64_t size)
hash_combine(v, size) ==
    hash_step(hash_chunks(WordOfNat(size), v, 0, size \div cel_size),
              LastBytes(v, size))


\* ------------------------------------------------------------------------
\* Local variables
\* ------------------------------------------------------------------------

\* A local variable of the code (auto v = e; ...): Body of the value of e,
\* which is computed once.
With(e, Body(_)) == CHOOSE r \in {Body(v) : v \in {e}} : TRUE

\* Two local variables.
With2(a, b, Body(_, _)) ==
    CHOOSE r \in {Body(x, y) : x \in {a}, y \in {b}} : TRUE

\* ------------------------------------------------------------------------
\* Output streams (std::ostream over a seekable sink)
\* ------------------------------------------------------------------------

\* A stream is its content and its put position.  A stream over a buffer
\* that cannot report a position (the streambuf of the hash pass, which
\* overrides xsputn alone) answers tellp with -1 and takes every write at
\* its end.
NewStream(content) ==
    [seekable |-> TRUE, buf |-> content, pos |-> Len(content), log |-> <<>>]

\* The stream of the hash pass: nothing written yet.
NewHashStream == [seekable |-> FALSE, buf |-> <<>>, pos |-> -1, log |-> <<>>]

tellp(s) == IF s.seekable THEN s.pos ELSE -1

\* ostream::write: the bytes overwrite the content from the put position on
\* and extend it where they reach past its end; the position advances.
\* log keeps the operations made on the stream, in order.
StreamWrite(stream, data) ==
    LET Written(s, bytes) ==
            LET n     == Len(bytes)
                last  == IF s.pos + n > Len(s.buf) THEN s.pos + n
                         ELSE Len(s.buf)
                entry == [op |-> "write", at |-> tellp(s), bytes |-> bytes]
            IN  IF ~s.seekable
                THEN [s EXCEPT !.buf = @ \o bytes, !.log = Append(@, entry)]
                ELSE [s EXCEPT
                        !.buf = [i \in 1..last |->
                                   IF i > s.pos /\ i <= s.pos + n
                                   THEN bytes[i - s.pos]
                                   ELSE s.buf[i]],
                        !.pos = s.pos + n,
                        !.log = Append(@, entry)]
    IN  With2(stream, data, Written)

\* ostream::seekp on a seekable stream
seekp(s, p) ==
    [s EXCEPT !.pos = p,
              !.log = Append(@, [op |-> "seekp", at |-> p, bytes |-> <<>>])]

\* ------------------------------------------------------------------------
\* Constant payloads in memory
\* ------------------------------------------------------------------------

\* The buffers the constant nodes own, by address.  Buffers 1 and 2 have the
\* same size and the same weak hash and differ; 3 holds the bytes of 2 and
\* 4 the bytes of 1 at other addresses; 5 and 6 are short buffers; 7 is a
\* longer buffer that begins with the byte of 5 and has the weak hash of 5.
Mem ==
    <<  <<0, 0, 0, 0, 0, 0, 0, 0, 188>>,
        <<1, 0, 0, 0, 0, 0, 0, 0, 0>>,
        <<1, 0, 0, 0, 0, 0, 0, 0, 0>>,
        <<0, 0, 0, 0, 0, 0, 0, 0, 188>>,
        <<7>>,
        <<2, 2>>,
        <<7, 21, 74, 231, 83, 147, 8, 4, 49, 103, 186, 251, 92, 153, 225>>  >>

Ptrs == DOMAIN Mem

\* hash_combine of every whole buffer, computed once.
WeakHash == [p \in Ptrs |-> hash_combine(Mem[p], Len(Mem[p]))]

\* hash_combine(ptr, size)
hash_of(ptr, size) ==
    IF size = Len(Mem[ptr]) THEN WeakHash[ptr]
    ELSE hash_combine(Mem[ptr], size)

\* ------------------------------------------------------------------------
\* ConstantWriter
\* ------------------------------------------------------------------------

\* ConstantWriter(bin_data, enable_compression)
NewConstantWriter(bin_data, enable_compression) ==
    [m_binary_output         |-> bin_data,
     m_enable_compression    |-> enable_compression,
     m_blob_offset           |-> tellp(bin_data),
     m_hash_to_file_positions |-> {}]

\* m_hash_to_file_positions.find(hash): the entries with this key (at most one)
find(positions, hash) == {e \in positions : e.hash = hash}

\* m_hash_to_file_positions.insert({hash, {offset, ptr}}): an unordered_map
\* keeps the entry it already holds for the key.
insert(positions, hash, offset, ptr) ==
    IF find(positions, hash) # {} THEN positions
    ELSE positions \cup {[hash |-> hash, pos |-> offset, ptr |-> ptr]}

\* memcmp(ptr, retained, size) == 0.  The comparison reads size bytes of
\* both buffers; where the retained buffer is shorter and agrees on all of
\* its bytes, the read runs past its end and the outcome is oob.
memcmp_equal(ptr, retained, size, oob) ==
    LET a == Mem[ptr]
        b == Mem[retained]
        n == IF Len(b) < size THEN Len(b) ELSE size
    IN  IF \E i \in 1..n : a[i] # b[i] THEN FALSE
        ELSE IF Len(b) >= size THEN TRUE
        ELSE oob

\* The mutation of reuse_found that trusts the hash alone.
reuse_found_hash_only(positions, hash, ptr, size, oob) ==
    find(positions, hash) # {}

\* found != end(m_hash_to_file_positions) && memcmp(ptr, found->second.second, size) == 0
reuse_found(positions, hash, ptr, size, oob) ==
    /\ find(positions, hash) # {}
    /\ \A e \in find(positions, hash) : memcmp_equal(ptr, e.ptr, size, oob)

\* FilePosition ConstantWriter::write(const char* ptr, size_t size):
\* the writer after the call and the offset returned.
write(cw, ptr, size, oob) ==
    LET write_pos == tellp(cw.m_binary_output)
        offset    == write_pos - cw.m_blob_offset
        bytes     == SubSeq(Mem[ptr], 1, size)
        hash      == hash_of(ptr, size)
        found     == find(cw.m_hash_to_file_positions, hash)
    IN  IF ~cw.m_enable_compression
        THEN [cw |-> [cw EXCEPT !.m_binary_output = StreamWrite(@, bytes)],
              offset |-> offset]
        ELSE IF reuse_found(cw.m_hash_to_file_positions, hash, ptr, size, oob)
        THEN [cw |-> cw, offset |-> (CHOOSE e \in found : TRUE).pos]
        ELSE [cw |-> [cw EXCEPT
                        !.m_binary_output = StreamWrite(@, bytes),
                        !.m_hash_to_file_positions = insert(@, hash, offset, ptr)],
              offset |-> offset]

\* ------------------------------------------------------------------------
\* Names
\* ------------------------------------------------------------------------

\* A name is a sequence of tokens: a type name, a letter, "_" or a digit.
Digits == <<"0", "1", "2", "3", "4", "5", "6", "7", "8", "9">>

RECURSIVE to_string(_)
\* std::to_string of a non-negative integer
to_string(n) ==
    IF n < 10 THEN <<Digits[n + 1]>>
    ELSE to_string(n \div 10) \o <<Digits[(n % 10) + 1]>>

\* Node::get_name, Function::get_name: the unique name the system assigns,
\* the type name followed by "_" and the instance id.
get_name(n) == <<n.type, "_">> \o to_string(n.id)

\* Node::get_friendly_name: the friendly name, or the unique name when no
\* friendly name has been set.
get_friendly_name(n) ==
    IF n.friendly = <<>> THEN get_name(n) ELSE n.friendly

\* Node::set_friendly_name
set_friendly_name(n, name) == [n EXCEPT !.friendly = name]

\* is_name_auto_generated
is_name_auto_generated(n) == get_friendly_name(n) = get_name(n)

RECURSIVE generate_unique_name(_, _, _)
\* generate_unique_name(unique_names, base_name, suffix)
generate_unique_name(unique_names, base_name, suffix) ==
    LET new_name == base_name \o to_string(suffix)
    IN  IF new_name \notin unique_names THEN new_name
        ELSE generate_unique_name(unique_names, base_name, suffix + 1)

\* The mutation of get_node_unique_name that takes the suffix 0 without a
\* look at the names used.
get_node_unique_name_suffix_zero(unique_names, n) ==
    LET name == get_friendly_name(n)
    IN  IF name \in unique_names THEN name \o to_string(0) ELSE name

\* get_node_unique_name: the name written for the node; the caller inserts it
\* into unique_names.
get_node_unique_name(unique_names, n) ==
    LET name == get_friendly_name(n)
    IN  IF name \in unique_names
        THEN generate_unique_name(unique_names, name, 0)
        ELSE name

\* ------------------------------------------------------------------------
\* Nodes and functions
\* ------------------------------------------------------------------------

\* Serialize::Version
UNSPECIFIED == 0
IR_V10 == 10
IR_V11 == 11

Versions == {UNSPECIFIED, IR_V10, IR_V11}

\* A node: its type name and type version, its inputs (each the producing
\* node, by its place in the function's ordered ops, and the producer's
\* output index), its number of outputs, the buffer of a Constant, what
\* visit_attributes does on it, its instance id and its friendly name
\* (<<>> while none is set).
Node(type, version, inputs, outputs, value, attrs, id, friendly) ==
    [type |-> type, version |-> version, inputs |-> inputs,
     outputs |-> outputs, value |-> value, attrs |-> attrs,
     id |-> id, friendly |-> friendly]

\* An input's source: output index of node src.
From(src, index) == [node |-> src, index |-> index]

is_parameter(n) == n.type = "Parameter"
is_output(n) == n.type = "Result"
is_sink(n) == n.type = "Assign"

\* dynamic_cast<opset1::LSTMCell*>(node)
is_opset1_LSTMCell(n) == n.type = "LSTMCell" /\ n.version = 0

\* translate_type_name
translate_type_name(name) ==
    CASE name = "Constant" -> "Const"
      [] name = "PRelu" -> "PReLU"
      [] name = "Relu" -> "ReLU"
      [] name = "Softmax" -> "SoftMax"
      [] OTHER -> name

\* f->get_rt_info().count("version")
rt_info_count(f, key) == Cardinality({e \in f.rt_info : e[1] = key})

\* f->get_rt_info().at("version"), the int64_t the variant wraps
rt_info_at(f, key) == (CHOOSE e \in f.rt_info : e[1] = key)[2]

\* ------------------------------------------------------------------------
\* Partial shapes and resolve_dynamic_shapes
\* ------------------------------------------------------------------------

\* Dimension: the interval [min, max] of lengths; max = -1 is no upper
\* bound.  Dimension(-1) is the fully dynamic dimension.
Interval(min, max) == [min |-> min, max |-> max]
Dimension(d) == IF d = -1 THEN Interval(0, -1) ELSE Interval(d, d)

\* Dimension::is_dynamic, is_static, get_length, get_max_length
dim_is_dynamic(d) == d.min # d.max
dim_is_static(d) == ~dim_is_dynamic(d)
get_length(d) == d.min
get_max_length(d) == d.max

\* PartialShape::is_dynamic for a shape of static rank
shape_is_dynamic(shape) == \E i \in 1..Len(shape) : dim_is_dynamic(shape[i])

\* The partial shape of the outputs of the node at place k.
get_output_partial_shape(f, k) == f.shapes[k]

\* !op->is_dynamic() && !has_dynamic_output(op) for every op: is_dynamic
\* looks at the shapes of the inputs, has_dynamic_output at the outputs.
all_static(f) ==
    \A k \in 1..Len(f.ops) : ~shape_is_dynamic(get_output_partial_shape(f, k))

\* dynamic_to_static: every dimension becomes its upper bound.
dynamic_to_static(shape) ==
    IF ~shape_is_dynamic(shape) THEN shape
    ELSE [i \in 1..Len(shape) |-> Dimension(get_max_length(shape[i]))]

\* op->validate_and_infer_types() for the node at place k, given the shapes
\* the outputs of the nodes before it have now: a Parameter has the shape
\* it was declared with, a Relu, Result, Assign or Custom node the shape
\* of its first input; a node of another type here has inputs of static
\* shape only, and keeps its shape.
infer_shape(f, k, shapes) ==
    LET n == f.ops[k]
    IN  IF n.type \in {"Relu", "Result", "Assign", "Custom"}
        THEN shapes[n.inputs[1].node]
        ELSE f.shapes[k]

RECURSIVE resolve_from(_, _, _)
\* The loop of resolve_dynamic_shapes from place k on: the op and its clone
\* are validated on the shapes set so far, and the op gets the shape of the
\* clone after dynamic_to_static.  (A clone that folds to a constant has a
\* static shape, which dynamic_to_static keeps.)
resolve_from(f, k, shapes) ==
    IF k > Len(f.ops) THEN shapes
    ELSE LET Rest(done) == resolve_from(f, k + 1, done)
         IN  With([shapes EXCEPT
                      ![k] = dynamic_to_static(infer_shape(f, k, shapes))],
                  Rest)

\* resolve_dynamic_shapes: the function as the layers are written from it.
resolve_dynamic_shapes(f) ==
    IF all_static(f) THEN f
    ELSE [f EXCEPT !.shapes = resolve_from(f, 1, f.shapes)]

\* The <dim> children of a port: -1 for a dynamic dimension, the length of
\* a static one.
port_dims(shape) ==
    [i \in 1..Len(shape) |->
        IF dim_is_dynamic(shape[i]) THEN -1 ELSE get_length(shape[i])]

\* ------------------------------------------------------------------------
\* What ngfunction_2_ir does to the function
\* ------------------------------------------------------------------------

\* The padding attributes of a node: auto_pad, pads_begin, pads_end; NoPads
\* for a node of a type without them.
Pads(auto_pad, pads_begin, pads_end) ==
    [auto_pad |-> auto_pad, pads_begin |-> pads_begin, pads_end |-> pads_end]
NoPads == Pads("none", <<>>, <<>>)

\* pad_agnostic_types (AUTO is SAME_UPPER)
pad_agnostic_types == {"SAME_LOWER", "SAME_UPPER", "VALID"}

\* auto_pad_resolving(node): set_pads_begin and set_pads_end (or
\* set_adding_above) with as many zeros as the node has pads, when its
\* auto_pad is pad agnostic.
auto_pad_resolving(attributes) ==
    IF attributes.auto_pad \in pad_agnostic_types
    THEN [attributes EXCEPT
            !.pads_begin = [i \in 1..Len(attributes.pads_begin) |-> 0],
            !.pads_end = [i \in 1..Len(attributes.pads_end) |-> 0]]
    ELSE attributes

RECURSIVE validate_from(_, _, _)
\* validate_and_infer_types of the ops from place k on, in order.
validate_from(f, k, shapes) ==
    IF k > Len(f.ops) THEN shapes
    ELSE LET Rest(done) == validate_from(f, k + 1, done)
         IN  With([shapes EXCEPT ![k] = infer_shape(f, k, shapes)], Rest)

\* f.validate_nodes_and_infer_types(): the output shapes afterwards.
validate_nodes_and_infer_types(f) == validate_from(f, 1, f.shapes)

\* The function as ngfunction_2_ir leaves it when its loop over the layers
\* has got to the first visited nodes of the order and ended ok or by an
\* exception: resolve_dynamic_shapes has set the output shapes of the ops,
\* auto_pad_resolving has run on each node got to, and the shapes are
\* moved back only when the end of the function is reached.
left_by_layers(f, order, visited, ok) ==
    LET has_dynamic_shapes == ~all_static(f)
        got_to == {order[i] : i \in 1..visited}
    IN  [f EXCEPT
           !.attributes = [k \in 1..Len(f.ops) |->
                             IF k \in got_to
                             THEN auto_pad_resolving(f.attributes[k])
                             ELSE f.attributes[k]],
           !.shapes = IF ~has_dynamic_shapes THEN f.shapes
                      ELSE IF ok THEN validate_nodes_and_infer_types(f)
                      ELSE resolve_dynamic_shapes(f).shapes]

\* ------------------------------------------------------------------------
\* ngfunction_2_ir: layers
\* ------------------------------------------------------------------------

\* create_layer_ids: the id of a node is its index in get_ordered_ops().
create_layer_ids(f) == [k \in 1..Len(f.ops) |-> k - 1]

is_interior(n) == ~is_parameter(n) /\ ~is_output(n) /\ ~is_sink(n)

RECURSIVE interior_ops(_, _)
\* the nodes of the ordered ops from k on that are neither parameter,
\* result nor sink
interior_ops(f, k) ==
    IF k > Len(f.ops) THEN <<>>
    ELSE (IF is_interior(f.ops[k]) THEN <<k>> ELSE <<>>)
             \o interior_ops(f, k + 1)

\* sorted_ops: the order in which the layers are written
sorted_ops(f, version) ==
    IF version >= 11
    THEN f.parameters \o interior_ops(f, 1) \o f.sinks \o f.results
    ELSE [k \in 1..Len(f.ops) |-> k]

RECURSIVE input_ports(_, _, _)
\* The <input> ports written for the inputs i, i+1, ... of a node, where
\* port_id is the next port id; the 7th input of an LSTMCell of opset1
\* takes an id and is not written.
input_ports(n, i, port_id) ==
    IF i >= Len(n.inputs) THEN [ports |-> <<>>, port_id |-> port_id]
    ELSE LET rest == input_ports(n, i + 1, port_id + 1)
         IN  IF i = 6 /\ is_opset1_LSTMCell(n) THEN rest
             ELSE [rest EXCEPT !.ports = <<port_id>> \o @]

\* The mutation of output_ports that numbers the outputs after the input
\* ports written.
output_ports_no_gap(n, port_id) ==
    IF n.outputs > 0 /\ ~is_output(n)
    THEN [o \in 1..n.outputs |-> Len(input_ports(n, 0, 0).ports) + o - 1]
    ELSE <<>>

\* The <output> ports written for a node whose inputs ended at port_id.
output_ports(n, port_id) ==
    IF n.outputs > 0 /\ ~is_output(n)
    THEN [o \in 1..n.outputs |-> port_id + o - 1]
    ELSE <<>>

\* node->visit_attributes(visitor) with the XmlSerializer: the attributes of
\* <data>, the constant writer afterwards, and how the visit ended.  The
\* value of a Constant is handed to the constant writer; an attribute kind
\* without a handler throws ngraph_error; a node without visitor support
\* fails the check on visit_attributes.
visit_attributes(n, cw, oob) ==
    IF n.attrs = "no_visitor"
    THEN [status |-> "CheckFailure", cw |-> cw, data |-> <<>>]
    ELSE IF n.attrs = "unsupported"
    THEN [status |-> "ngraph_error", cw |-> cw, data |-> <<>>]
    ELSE IF translate_type_name(n.type) = "Const"
    THEN LET size == Len(Mem[n.value])
             r    == write(cw, n.value, size, oob)
         IN  [status |-> "ok", cw |-> r.cw, data |-> <<r.offset, size>>]
    ELSE [status |-> "ok", cw |-> cw, data |-> <<>>]

\* The name attribute of a layer or of the net: absent in deterministic mode
\* for an auto-generated name.
NoName == [has |-> FALSE, name |-> <<>>]
Name(name) == [has |-> TRUE, name |-> name]

RECURSIVE emit_layers(_, _, _, _, _, _, _)
\* The loop over sorted_ops from position k on.  acc holds the layers
\* written, the names used, the constant writer and the status.
emit_layers(f, order, k, acc, version, deterministic, oob) ==
    IF k > Len(order) \/ acc.status # "ok" THEN acc
    ELSE
    LET node   == f.ops[order[k]]
        named  == ~deterministic \/ ~is_name_auto_generated(node)
        name   == get_node_unique_name(acc.unique_names, node)
        inp    == input_ports(node, 0, 0)
        visit  == visit_attributes(node, acc.cw, oob)
        layer  == [id     |-> create_layer_ids(f)[order[k]],
                   name   |-> IF named THEN Name(name) ELSE NoName,
                   type   |-> translate_type_name(node.type),
                   input  |-> inp.ports,
                   output |-> output_ports(node, inp.port_id),
                   in_dims  |-> [p \in 1..Len(inp.ports) |->
                                   port_dims(get_output_partial_shape(f,
                                       node.inputs[inp.ports[p] + 1].node))],
                   out_dims |-> [o \in 1..Len(output_ports(node, inp.port_id))
                                   |-> port_dims(get_output_partial_shape(f,
                                                     order[k]))],
                   data   |-> visit.data]
        Rest(next) == emit_layers(f, order, k + 1, next, version,
                                  deterministic, oob)
    IN  With([status       |-> visit.status,
              cw           |-> visit.cw,
              layers       |-> Append(acc.layers, layer),
              unique_names |-> IF named THEN acc.unique_names \cup {name}
                               ELSE acc.unique_names],
             Rest)

\* ------------------------------------------------------------------------
\* ngfunction_2_ir: edges
\* ------------------------------------------------------------------------

RECURSIVE node_edges(_, _, _)
\* The edges into the inputs i, i+1, ... of the node at place k.
node_edges(f, k, i) ==
    IF i >= Len(f.ops[k].inputs) THEN <<>>
    ELSE LET src == f.ops[k].inputs[i + 1]
             e   == [from_layer |-> create_layer_ids(f)[src.node],
                     from_port  |-> Len(f.ops[src.node].inputs) + src.index,
                     to_layer   |-> create_layer_ids(f)[k],
                     to_port    |-> i]
         IN  <<e>> \o node_edges(f, k, i + 1)

RECURSIVE collect_edges(_, _)
\* The loop of create_edge_mapping over the ordered ops from place k on.
collect_edges(f, k) ==
    IF k > Len(f.ops) THEN <<>>
    ELSE (IF is_parameter(f.ops[k]) THEN <<>> ELSE node_edges(f, k, 0))
             \o collect_edges(f, k + 1)

\* The edges of one from_layer in the order std::sort leaves them in: the
\* k-th is the one collected as the order[k]-th of them (order is a
\* permutation of their places).
arranged(group, order) == [k \in 1..Len(group) |-> group[order[k]]]

RECURSIVE sort_by_from_layer(_, _, _)
\* std::sort with the comparison a.from_layer < b.from_layer: the edges in
\* non-decreasing from_layer.  The order among edges of one from_layer is
\* not fixed by std::sort (it is the collected one when the sort is an
\* insertion sort, as for up to 16 edges in libstdc++, and another one
\* beyond); ties holds, for every layer id in turn, the order of the edges
\* of that from_layer, each from_layer with an order of its own.
sort_by_from_layer(edges, layer, ties) ==
    IF \A i \in 1..Len(edges) : edges[i].from_layer < layer THEN <<>>
    ELSE LET Here(e) == e.from_layer = layer
             group   == SelectSeq(edges, Here)
         IN  arranged(group, ties[layer + 1])
                 \o sort_by_from_layer(edges, layer + 1, ties)

\* create_edge_mapping
create_edge_mapping(f, ties) ==
    LET Sorted(edges) == sort_by_from_layer(edges, 0, ties)
    IN  With(collect_edges(f, 1), Sorted)

\* The mutation of is_peephole_edge that looks at the port alone.
is_peephole_edge_any_type(f, e) == e.to_port = 6

\* The edge is the peephole input of an LSTMCell of version 0.
is_peephole_edge(f, e) ==
    /\ e.to_port = 6
    /\ f.ops[e.to_layer + 1].type = "LSTMCell"
    /\ f.ops[e.to_layer + 1].version = 0

\* The <edges> written: the edge mapping without the peephole edges.
emit_edges(f, ties) ==
    LET Written(e) == ~is_peephole_edge(f, e)
    IN  SelectSeq(create_edge_mapping(f, ties), Written)

\* ngfunction_2_ir: the document built for f, the constant writer afterwards
\* and how the call ended.
ngfunction_2_ir(f, cw, version, deterministic, oob, ties) ==
    LET Document(r) ==
            [status |-> r.status,
             cw     |-> r.cw,
             doc    |-> [name    |-> IF \/ ~deterministic
                                        \/ ~is_name_auto_generated(f)
                                     THEN Name(get_friendly_name(f))
                                     ELSE NoName,
                         version |-> version,
                         layers  |-> r.layers,
                         edges   |-> emit_edges(f, ties)],
             f      |-> left_by_layers(f, sorted_ops(f, version),
                                       Len(r.layers), r.status = "ok")]
        Layers(resolved) ==
            emit_layers(resolved, sorted_ops(f, version), 1,
                [status |-> "ok", cw |-> cw, layers |-> <<>>,
                 unique_names |-> {}],
                version, deterministic, oob)
    IN  With(With(resolve_dynamic_shapes(f), Layers), Document)

\* ------------------------------------------------------------------------
\* serializeFunc
\* ------------------------------------------------------------------------

\* The text xml_doc.save writes: n bytes.
XmlText(n) == [i \in 1..n |-> 60]

\* The version after the hint of the function's rt_info is taken.
hinted_version(f, ver) ==
    IF rt_info_count(f, "version") > 0 THEN rt_info_at(f, "version") ELSE ver

\* The mutation of explicit_version_mismatch that lets the hint win.
explicit_version_mismatch_never(version, ver) == FALSE

\* version != static_cast<int64_t>(ver) && ver != Version::UNSPECIFIED
explicit_version_mismatch(version, ver) ==
    version # ver /\ ver # UNSPECIFIED

\* UNSPECIFIED becomes IR_V11.
resolve_unspecified(version) ==
    IF version = UNSPECIFIED THEN IR_V11 ELSE version

\* version != IR_V10 && version != IR_V11
unsupported_version(version) == version # IR_V10 /\ version # IR_V11

\* How a call ended: "ok", or the exception thrown and its message.
Ok == [status |-> "ok", what |-> ""]
Thrown(type, what) == [status |-> type, what |-> what]

\* The message of the exception that left ngfunction_2_ir.
failure_of(status) ==
    IF status = "CheckFailure"
    THEN Thrown(status, "Visitor API is not supported")
    ELSE Thrown(status, "Unsupported attribute type for serialization")

\* serializeFunc(xml_file, bin_file, f, ver, custom_opsets, deterministic):
\* the two streams afterwards, the document saved (none when an exception
\* leaves the call) and how the call ended.
serializeFunc(xml_file, bin_file, f, ver, deterministic, in) ==
    LET hinted  == hinted_version(f, ver)
        version == resolve_unspecified(hinted)
        unchanged == [xml_file |-> xml_file, bin_file |-> bin_file,
                      saved |-> <<>>, f |-> f]
        Save(r) ==
            IF r.status # "ok"
            THEN [end |-> failure_of(r.status), xml_file |-> xml_file,
                  bin_file |-> r.cw.m_binary_output, saved |-> <<>>,
                  f |-> r.f]
            ELSE [end |-> Ok,
                  xml_file |-> StreamWrite(xml_file, XmlText(in.xml_len)),
                  bin_file |-> r.cw.m_binary_output,
                  saved |-> <<r.doc>>, f |-> r.f]
    IN  IF explicit_version_mismatch(hinted, ver)
        THEN [end |-> Thrown("ngraph_error",
                        "Cannot serialize function to incompatible IR version")]
                 @@ unchanged
        ELSE IF unsupported_version(version)
        THEN [end |-> Thrown("ngraph_error", "Unsupported version")]
                 @@ unchanged
        ELSE With(ngfunction_2_ir(f, NewConstantWriter(bin_file, TRUE),
                                  version, deterministic, in.oob, in.ties),
                  Save)

\* ------------------------------------------------------------------------
\* The passes
\* ------------------------------------------------------------------------

\* DataHeader: six size_t fields.
HeaderFields == 6
HeaderSize == HeaderFields * cel_size

NewDataHeader ==
    [custom_data_offset |-> 0, custom_data_size |-> 0, consts_offset |-> 0,
     consts_size |-> 0, model_offset |-> 0, model_size |-> 0]

\* The bytes of a DataHeader, as writeHeader hands them to the stream.
HeaderBytes(hdr) ==
    WordOfNat(hdr.custom_data_offset) \o WordOfNat(hdr.custom_data_size)
        \o WordOfNat(hdr.consts_offset) \o WordOfNat(hdr.consts_size)
        \o WordOfNat(hdr.model_offset) \o WordOfNat(hdr.model_size)

RECURSIVE WriteAll(_, _)
\* The custom data serializer: it writes its chunks to the stream.
WriteAll(s, chunks) ==
    IF chunks = <<>> THEN s
    ELSE WriteAll(StreamWrite(s, Head(chunks)), Tail(chunks))

\* The mutation of final_header that takes the end of the stream for the
\* size of the model.
final_header_model_size_is_end(custom_data_offset, consts_offset, model_offset, file_size) ==
    [custom_data_offset |-> custom_data_offset,
     custom_data_size   |-> consts_offset - custom_data_offset,
     consts_offset      |-> consts_offset,
     consts_size        |-> model_offset - consts_offset,
     model_offset       |-> model_offset,
     model_size         |-> file_size]

\* The header once every size is known: each size is the distance between
\* two positions of the stream.
final_header(custom_data_offset, consts_offset, model_offset, file_size) ==
    [custom_data_offset |-> custom_data_offset,
     custom_data_size   |-> consts_offset - custom_data_offset,
     consts_offset      |-> consts_offset,
     consts_size        |-> model_offset - consts_offset,
     model_offset       |-> model_offset,
     model_size         |-> file_size - model_offset]

\* The mutation of rewrite_header that leaves the position after the header.
rewrite_header_no_restore(s, header_offset, hdr, file_size) ==
    StreamWrite(seekp(s, header_offset), HeaderBytes(hdr))

\* m_stream.seekp(header_offset); writeHeader(hdr); m_stream.seekp(file_size)
rewrite_header(s, header_offset, hdr, file_size) ==
    seekp(StreamWrite(seekp(s, header_offset), HeaderBytes(hdr)), file_size)

\* pass::StreamSerialize::run_on_function: the stream afterwards, the
\* document saved and how the call ended.
StreamSerialize_run(stream, f, m_version, custom, in) ==
    LET hinted        == hinted_version(f, m_version)
        version       == resolve_unspecified(hinted)
        header_offset == tellp(stream)
        s1            == StreamWrite(stream, HeaderBytes(NewDataHeader))
        custom_data_offset == tellp(s1)
        Model(s2, r) ==
            LET consts_offset == tellp(s2)
                s3            == r.cw.m_binary_output
                model_offset  == tellp(s3)
                Header(s4) ==
                    LET file_size == tellp(s4)
                        hdr == final_header(custom_data_offset, consts_offset,
                                            model_offset, file_size)
                    IN  [end    |-> Ok,
                         stream |-> rewrite_header(s4, header_offset, hdr,
                                                   file_size),
                         saved  |-> <<r.doc>>, f |-> r.f]
            IN  IF r.status # "ok"
                THEN [end |-> failure_of(r.status), stream |-> s3,
                      saved |-> <<>>, f |-> r.f]
                ELSE With(StreamWrite(s3, XmlText(in.xml_len)), Header)
        Blobs(s2) ==
            LET IR(r) == Model(s2, r)
            IN  With(ngfunction_2_ir(f, NewConstantWriter(s2, TRUE), version,
                                     FALSE, in.oob, in.ties),
                     IR)
    IN  IF explicit_version_mismatch(hinted, m_version)
        THEN [end |-> Thrown("ngraph_error",
                        "Cannot serialize function to incompatible IR version"),
              stream |-> stream, saved |-> <<>>, f |-> f]
        ELSE With(WriteAll(s1, custom), Blobs)

\* remove(m_xmlPath), remove(m_binPath) in the handler of CheckFailure
remove_on_failure(files, end) ==
    IF end.status = "CheckFailure" THEN {} ELSE files

\* pass::Serialize::run_on_function with paths: the files on disk afterwards,
\* the two file streams, the document saved and how the call ended.
Serialize_run_on_paths(f, m_version, bin_opens, xml_opens, in) ==
    LET nothing == [xml_file |-> NewStream(<<>>), bin_file |-> NewStream(<<>>),
                    saved |-> <<>>, f |-> f]
        Cleaned(r) == [disk |-> remove_on_failure({"xml", "bin"}, r.end)] @@ r
    IN  IF ~bin_opens
        THEN [end |-> Thrown("CheckFailure", "Can't open bin file"),
              disk |-> {}] @@ nothing
        ELSE IF ~xml_opens
        THEN [end |-> Thrown("CheckFailure", "Can't open xml file"),
              disk |-> {"bin"}] @@ nothing
        ELSE With(serializeFunc(NewStream(<<>>), NewStream(<<>>), f,
                                m_version, FALSE, in),
                  Cleaned)

\* ------------------------------------------------------------------------
\* The functions serialized
\* ------------------------------------------------------------------------

\* The node that consumes the two constants and the parameters.
MidNode(mid) ==
    CASE mid = "Concat" ->
           Node("Concat", 0, <<From(2, 0), From(1, 0), From(4, 0)>>, 1, 0,
                "ok", 5, <<>>)
      [] mid = "Concat7" ->
           Node("Concat", 0,
                <<From(2, 0), From(3, 0), From(3, 0), From(1, 0), From(4, 0),
                  From(1, 0), From(4, 0)>>, 1, 0, "ok", 5, <<>>)
      [] mid = "LSTMCell0" ->
           Node("LSTMCell", 0,
                <<From(2, 0), From(3, 0), From(3, 0), From(1, 0), From(4, 0),
                  From(1, 0), From(4, 0)>>, 2, 0, "ok", 5, <<>>)
      [] mid = "LSTMCell4" ->
           Node("LSTMCell", 4,
                <<From(2, 0), From(3, 0), From(3, 0), From(1, 0), From(4, 0),
                  From(1, 0)>>, 2, 0, "ok", 5, <<>>)
      [] mid = "Unsupported" ->
           Node("Custom", 0, <<From(1, 0), From(4, 0)>>, 1, 0,
                "unsupported", 5, <<>>)
      [] mid = "NoVisitor" ->
           Node("Custom", 0, <<From(1, 0), From(4, 0)>>, 1, 0,
                "no_visitor", 5, <<>>)

Mids == {"Concat", "Concat7", "LSTMCell0", "LSTMCell4", "Unsupported",
         "NoVisitor"}

\* The two nodes after it in the ordered ops, with the sinks and results
\* the function registers.  A function registers the sinks it is given:
\* one made of the outputs of an Assign alone has the Assign in its ordered
\* ops, under the Result of that output, and no sink.
TailNodes(tail) ==
    CASE tail = "ReluResult" ->
           [ops |-> <<Node("Relu", 0, <<From(5, 0)>>, 1, 0, "ok", 6, <<>>),
                      Node("Result", 0, <<From(6, 0)>>, 1, 0, "ok", 7, <<>>)>>,
            sinks |-> <<>>, results |-> <<7>>]
      [] tail = "AssignResult" ->
           [ops |-> <<Node("Assign", 3, <<From(5, 0)>>, 1, 0, "ok", 6, <<>>),
                      Node("Result", 0, <<From(5, 0)>>, 1, 0, "ok", 7, <<>>)>>,
            sinks |-> <<6>>, results |-> <<7>>]
      [] tail = "ResultAssign" ->
           [ops |-> <<Node("Result", 0, <<From(5, 0)>>, 1, 0, "ok", 6, <<>>),
                      Node("Assign", 3, <<From(5, 0)>>, 1, 0, "ok", 7, <<>>)>>,
            sinks |-> <<7>>, results |-> <<6>>]
      [] tail = "TwoResults" ->
           [ops |-> <<Node("Result", 0, <<From(5, 0)>>, 1, 0, "ok", 6, <<>>),
                      Node("Result", 0, <<From(3, 0)>>, 1, 0, "ok", 7, <<>>)>>,
            sinks |-> <<>>, results |-> <<7, 6>>]
      [] tail = "AssignUnderResult" ->
           [ops |-> <<Node("Assign", 3, <<From(5, 0)>>, 1, 0, "ok", 6, <<>>),
                      Node("Result", 0, <<From(6, 0)>>, 1, 0, "ok", 7, <<>>)>>,
            sinks |-> <<>>, results |-> <<7>>]

Tails == {"ReluResult", "AssignResult", "ResultAssign", "TwoResults",
          "AssignUnderResult"}

\* The buffers of the two constants: equal bytes at two addresses, two
\* buffers of one weak hash, two unrelated buffers.
ConstantPairs == {<<1, 4>>, <<1, 2>>, <<5, 6>>}

\* The "version" entries a function's rt_info may hold.
VersionHints == {{}, {<<"version", 0>>}, {<<"version", 7>>},
                 {<<"version", 10>>}, {<<"version", 11>>}}

\* A function: its ordered ops (get_ordered_ops: a topological order, here
\* with a constant ahead of the parameters), the parameters, sinks and
\* results it registers, its rt_info, its instance id and friendly name.
MkFunction(mid, tail, parameters, consts, rt_info) ==
    [ops |-> <<Node("Constant", 0, <<>>, 1, consts[1], "ok", 1, <<>>),
               Node("Parameter", 0, <<>>, 1, 0, "ok", 2, <<>>),
               Node("Parameter", 0, <<>>, 1, 0, "ok", 3, <<>>),
               Node("Constant", 0, <<>>, 1, consts[2], "ok", 4, <<>>),
               MidNode(mid)>> \o TailNodes(tail).ops,
     parameters |-> parameters,
     sinks      |-> TailNodes(tail).sinks,
     results    |-> TailNodes(tail).results,
     rt_info    |-> rt_info,
     type       |-> "Function",
     id         |-> 1,
     friendly   |-> <<>>,
     shapes     |-> [k \in 1..(Len(TailNodes(tail).ops) + 5) |->
                        <<Dimension(2)>>],
     attributes |-> [k \in 1..(Len(TailNodes(tail).ops) + 5) |-> NoPads]]

\* The middle nodes of six inputs or more: several edges of one from_layer.
ManyInputs == {"Concat7", "LSTMCell0", "LSTMCell4"}

\* The functions handed to the passes: every middle node with every tail
\* and parameter order; those of few inputs with every pair of constants
\* and every version hint as well.
Functions ==
    {MkFunction(mid, tail, parameters, consts, rt_info) :
        mid \in Mids \ ManyInputs, tail \in Tails,
        parameters \in {<<2, 3>>, <<3, 2>>},
        consts \in ConstantPairs, rt_info \in VersionHints}
      \cup {MkFunction(mid, tail, parameters, <<1, 4>>, {}) :
                mid \in ManyInputs, tail \in Tails,
                parameters \in {<<2, 3>>, <<3, 2>>}}

\* ------------------------------------------------------------------------
\* op::v8::Slice: shape inference
\* ------------------------------------------------------------------------

\* INT32_MAX
INT32_MAX == 2147483647

\* INT64_MAX as the upper bound of a dimension: Dimension(min, -1) and
\* Dimension(min, INT64_MAX) have no upper bound, and the model keeps both
\* as -1.
INT64_MAX == -1

\* int64_t. The integers of the model end at INT32_MAX, so where the code
\* computes with lengths up to INT64_MAX the model keeps an int64_t as
\* <<h, l>>, which is h * 2^60 + l.
Int64(n) == <<0, n>>

\* std::numeric_limits<int64_t>::max() and min(); Interval::s_max is the
\* first.
int64_max == <<8, -1>>
int64_min == <<-8, 0>>
s_max == int64_max

add64(a, b) == <<a[1] + b[1], a[2] + b[2]>>
sub64(a, b) == <<a[1] - b[1], a[2] - b[2]>>
less64(a, b) == a[1] < b[1] \/ (a[1] = b[1] /\ a[2] < b[2])
min64(a, b) == IF less64(b, a) THEN b ELSE a
max64(a, b) == IF less64(a, b) THEN b ELSE a

\* The bound of a dimension as the model keeps it in an Interval: a length
\* up to INT32_MAX as itself, INT64_MAX as -1, and any other length
\* 2^63 / k above INT32_MAX as -k (2^62 is -2).
bound_of(w) == IF w[1] = 0 THEN w[2] ELSE -(8 \div w[1])
int64_of(b) ==
    IF b >= 0 THEN Int64(b)
    ELSE IF b = INT64_MAX THEN int64_max
    ELSE <<8 \div (-b), 0>>

\* Dimension::get_min_length, Interval::get_max_val, has_upper_bound
get_min_length(d) == d.min
get_max_val(d) == int64_of(d.max)
has_upper_bound(d) == d.max # INT64_MAX

\* Dimension(min, max): a max of -1 or INT64_MAX is no upper bound.
DimensionOf(min, max) == Interval(min, max)

\* Interval(min, max) clips both bounds into [0, s_max].
clip(x) == max64(Int64(0), min64(s_max, x))

Max(a, b) == IF a >= b THEN a ELSE b
Min(a, b) == IF a <= b THEN a ELSE b
Abs(a) == IF a < 0 THEN -a ELSE a

\* The mutation of ceil_div that rounds down.
ceil_div_floor(elements, step) == elements \div Abs(step)

\* std::ceil(elements / std::fabs(step)) for 0 <= elements <= INT32_MAX,
\* which a double holds exactly.
ceil_div(elements, step) ==
    (elements \div Abs(step)) + (IF elements % Abs(step) = 0 THEN 0 ELSE 1)

\* The distance between the doubles next to a count of at least 2^59.
ulp(w) ==
    IF less64(w, <<1, 0>>) THEN 128
    ELSE IF less64(w, <<2, 0>>) THEN 256
    ELSE IF less64(w, <<4, 0>>) THEN 512
    ELSE IF less64(w, <<8, 0>>) THEN 1024 ELSE 2048

\* The int64_t count w >= 0 as a double: exact up to INT32_MAX, above it
\* rounded to the nearest double, to the even one of two equally near
\* (INT64_MAX - 3 becomes 2^63).
as_double(w) ==
    IF w[1] = 0 THEN w
    ELSE LET q == w[2] \div ulp(w)
             r == w[2] % ulp(w)
             nearest == IF 2 * r < ulp(w) THEN q
                        ELSE IF 2 * r > ulp(w) THEN q + 1
                        ELSE IF q % 2 = 0 THEN q ELSE q + 1
         IN  <<w[1], nearest * ulp(w)>>

\* d / std::fabs(step) for a double d of at least 2^61 (a whole number of
\* 512s): exact when |step| is 1 or 2, the steps of the model.  The
\* quotients are down to 2^60.
divided(d, step) ==
    CASE Abs(step) = 1 -> d
      [] Abs(step) = 2 /\ d[1] % 2 = 0 -> <<d[1] \div 2, d[2] \div 2>>

VARIABLE
    out_of_range    \* what this build's conversion of a double of 2^63 or
                    \* more to int64_t gives

\* The outcomes of that conversion, which is undefined: INT64_MIN where
\* the conversion is cvttsd2si (x86-64), INT64_MAX where it saturates
\* (AArch64).
OutOfRange == {int64_min, int64_max}

\* const int64_t sliced_dim_size = std::ceil(...): the double as int64_t
to_int64(d) == IF less64(d, <<8, 0>>) THEN d ELSE out_of_range

\* get_sliced_dim_size(start, stop, step, dim_size), dim_size an int64_t
get_sliced_dim_size(start, stop, step, dim_size) ==
    LET nstart == IF start < 0 THEN add64(dim_size, Int64(start))
                  ELSE Int64(start)
        nstop  == IF stop < 0 THEN add64(dim_size, Int64(stop))
                  ELSE Int64(stop)
        cstart == max64(Int64(0), min64(nstart, dim_size))
        cstop  == max64(Int64(-1), min64(nstop, dim_size))
        elements_in_range ==
            IF step < 0
            THEN max64(Int64(0),
                       sub64(min64(sub64(dim_size, Int64(1)), cstart), cstop))
            ELSE max64(Int64(0), sub64(min64(dim_size, cstop), cstart))
    IN  IF elements_in_range[1] = 0
        THEN Int64(ceil_div(elements_in_range[2], step))
        ELSE to_int64(divided(as_double(elements_in_range), step))

\* Dimension(min_dim_size, max_dim_size) of two sliced lengths
sliced_interval(min_dim_size, max_dim_size) ==
    Interval(bound_of(clip(min_dim_size)), bound_of(clip(max_dim_size)))

\* The mutation of sliced_dimension that normalizes with the axis length
\* in every case.
sliced_dimension_always_normalized(start, stop, step, axis_dim) ==
    sliced_interval(
        get_sliced_dim_size(start, stop, step, Int64(get_min_length(axis_dim))),
        get_sliced_dim_size(start, stop, step, get_max_val(axis_dim)))

\* The output dimension calculate_output_shape gives the axis of dimension
\* axis_dim, for step # 0.
sliced_dimension(start, stop, step, axis_dim) ==
    LET min_dim_size ==
            get_sliced_dim_size(start, stop, step,
                                Int64(get_min_length(axis_dim)))
    IN  IF dim_is_static(axis_dim)
        THEN sliced_interval(min_dim_size, min_dim_size)
        ELSE IF /\ ~has_upper_bound(axis_dim)
                /\ \/ step < 0 /\ start < 0 /\ stop > 0
                   \/ step > 0 /\ stop < 0 /\ start > 0
        THEN Dimension(-1)
        ELSE IF ~has_upper_bound(axis_dim) /\ step < 0 /\ start > 0 /\ stop < 0
        THEN DimensionOf(0, IF start >= INT32_MAX THEN INT64_MAX ELSE start + 1)
        ELSE IF ~has_upper_bound(axis_dim) /\ step > 0 /\ stop > 0 /\ start < 0
        THEN DimensionOf(0, IF stop >= INT32_MAX THEN INT64_MAX ELSE stop)
        ELSE sliced_interval(min_dim_size,
                             get_sliced_dim_size(start, stop, step,
                                                 get_max_val(axis_dim)))

\* NODE_VALIDATION_CHECK fails: NodeValidationFailure with this explanation.
ValidationFailure(what) == Thrown("NodeValidationFailure", what)

\* axes[i] < 0 ? data_static_rank + axes[i] : axes[i]
norm_axis(axis, data_static_rank) ==
    IF axis < 0 THEN data_static_rank + axis ELSE axis

\* norm_axis >= 0 && norm_axis < data_static_rank
axis_in_range(axis, data_static_rank) ==
    /\ norm_axis(axis, data_static_rank) >= 0
    /\ norm_axis(axis, data_static_rank) < data_static_rank

\* axes_set.size() == axes.size(): the values as given are distinct.
axes_unique(axes, data_static_rank) ==
    \A i, j \in 1..Len(axes) : i # j => axes[i] # axes[j]

RECURSIVE calculate_axes(_, _, _, _, _, _, _)
\* The loop of calculate_output_shape from the i-th axis on.
calculate_axes(starts, stops, steps, axes, data_shape, i, output_shape) ==
    IF i > Len(axes) THEN [end |-> Ok, shape |-> output_shape]
    ELSE IF ~axis_in_range(axes[i], Len(data_shape))
    THEN [end |-> ValidationFailure("Values in the 'axes' input must be in range of the 'data' input rank"),
          shape |-> <<>>]
    ELSE IF steps[i] = 0
    THEN [end |-> ValidationFailure("Slice 'step' value can't be zero."),
          shape |-> <<>>]
    ELSE LET a == norm_axis(axes[i], Len(data_shape)) + 1
             Rest(shape) == calculate_axes(starts, stops, steps, axes,
                                           data_shape, i + 1, shape)
         IN  With([output_shape EXCEPT
                      ![a] = sliced_dimension(starts[i], stops[i], steps[i],
                                              data_shape[a])],
                  Rest)

\* Slice::calculate_output_shape for data of static rank: the shape, or the
\* validation failure.
calculate_output_shape(starts, stops, steps, axes, data_shape) ==
    IF ~(Len(stops) = Len(starts) /\ Len(steps) = Len(starts)
            /\ Len(axes) = Len(starts))
    THEN [end |-> ValidationFailure("Slice 'start', 'stop', 'step', 'axes' inputs need to have the same size."),
          shape |-> <<>>]
    ELSE IF ~axes_unique(axes, Len(data_shape))
    THEN [end |-> ValidationFailure("Slice values in 'axes' input must be unique."),
          shape |-> <<>>]
    ELSE calculate_axes(starts, stops, steps, axes, data_shape, 1, data_shape)

\* A tensor a Slice reads or writes: its element type and partial shape
\* (shape is read only when the rank is static).
Tensor(type, rank_static, shape) ==
    [type |-> type, rank_static |-> rank_static, shape |-> shape]

\* The output of a node no validation has typed yet.
NewOutput == Tensor("dynamic", FALSE, <<>>)

\* An index input (start, stop, step or axes): a one-dimensional integer
\* tensor of Len(values) elements; get_constant_from_source finds its
\* values only when it is constant.
IndexInput(const, values) ==
    [present |-> TRUE, const |-> const, values |-> values]

\* The Slice of four inputs has no axes input.
NoAxes == [present |-> FALSE, const |-> FALSE, values |-> <<>>]

\* Op({data, start, stop, step[, axes]}): one output, every input marked
\* shape-irrelevant.
SliceNode(data, start, stop, step, axes) ==
    [data |-> data, start |-> start, stop |-> stop, step |-> step,
     axes |-> axes, relevant |-> [i \in 0..4 |-> FALSE],
     output |-> NewOutput]

\* set_input_is_relevant_to_shape(i) for i in 0..last
set_inputs_relevant_to_shape(n, last) ==
    [n EXCEPT !.relevant = [i \in 0..4 |-> IF i <= last THEN TRUE ELSE @[i]]]

\* set_output_type(0, type, shape)
set_output_type(n, type, rank_static, shape) ==
    [n EXCEPT !.output = Tensor(type, rank_static, shape)]

\* get_default_const_axes(start): 0, 1, ... for each element of start
get_default_const_axes(start) == [i \in 1..Len(start.values) |-> i - 1]

RECURSIVE bound_axes(_, _, _, _)
\* The loop over the constant axes when start, stop or step is not
\* constant: the dimension of each axis becomes 0..its largest length.
bound_axes(axes, data_shape, i, output_shape) ==
    IF i > Len(axes) THEN [end |-> Ok, shape |-> output_shape]
    ELSE IF ~axis_in_range(axes[i], Len(data_shape))
    THEN [end |-> ValidationFailure("Values in the 'axes' input must be in range of the 'data' input rank"),
          shape |-> <<>>]
    ELSE LET a == norm_axis(axes[i], Len(data_shape)) + 1
             Rest(shape) == bound_axes(axes, data_shape, i + 1, shape)
         IN  With([output_shape EXCEPT
                      ![a] = DimensionOf(0, get_max_length(data_shape[a]))],
                  Rest)

\* The mutation of infer_output_shape that starts from the shape of the
\* output once it has one.
infer_output_shape_from_output(n, axes_known, axes) ==
    IF n.start.const /\ n.stop.const /\ n.step.const /\ axes_known
    THEN calculate_output_shape(n.start.values, n.stop.values, n.step.values,
                                axes,
                                IF n.output.rank_static THEN n.output.shape
                                ELSE n.data.shape)
    ELSE IF axes_known
    THEN bound_axes(axes, n.data.shape, 1, n.data.shape)
    ELSE [end |-> Ok,
          shape |-> [a \in 1..Len(n.data.shape) |->
                        DimensionOf(0, get_max_length(n.data.shape[a]))]]

\* The output shape of validate_and_infer_types for data of static rank.
infer_output_shape(n, axes_known, axes) ==
    IF n.start.const /\ n.stop.const /\ n.step.const /\ axes_known
    THEN calculate_output_shape(n.start.values, n.stop.values, n.step.values,
                                axes, n.data.shape)
    ELSE IF axes_known
    THEN bound_axes(axes, n.data.shape, 1, n.data.shape)
    ELSE [end |-> Ok,
          shape |-> [a \in 1..Len(n.data.shape) |->
                        DimensionOf(0, get_max_length(n.data.shape[a]))]]

\* The rest of validate_and_infer_types once the shapes of start, stop and
\* step were found compatible: n has inputs 0..3 marked.
validate_axes_and_infer(n) ==
    LET marked == IF n.axes.present THEN set_inputs_relevant_to_shape(n, 4)
                  ELSE n
        axes_known == IF n.axes.present THEN n.axes.const ELSE TRUE
        axes == IF n.axes.present THEN n.axes.values
                ELSE get_default_const_axes(n.start)
        Typed(r) ==
            IF r.end = Ok
            THEN [end |-> Ok,
                  node |-> set_output_type(marked, n.data.type, TRUE, r.shape)]
            ELSE [end |-> r.end, node |-> marked]
    IN  IF /\ n.axes.present /\ n.data.rank_static
           /\ Len(n.axes.values) > Len(n.data.shape)
        THEN [end |-> ValidationFailure("Slice 'axes' input size can't be bigger than 'data' rank."),
              node |-> marked]
        ELSE IF n.axes.present /\ Len(n.axes.values) # Len(n.start.values)
        THEN [end |-> ValidationFailure("Slice 'axes' input must have compatible shape with 'start', 'stop', 'step' inputs."),
              node |-> marked]
        ELSE IF ~n.data.rank_static
        THEN [end |-> Ok,
              node |-> set_output_type(marked, n.data.type, FALSE, <<>>)]
        ELSE With(infer_output_shape(n, axes_known, axes), Typed)

\* Slice::validate_and_infer_types: how it ends, and the node it leaves.
validate_and_infer_types(n) ==
    IF n.data.rank_static /\ Len(n.data.shape) = 0
    THEN [end |-> ValidationFailure("Slice 'data' input can't be a scalar."),
          node |-> n]
    ELSE IF n.data.rank_static /\ Len(n.start.values) > Len(n.data.shape)
    THEN [end |-> ValidationFailure("Slice 'start' input dim size can't be bigger than 'data' rank."),
          node |-> n]
    ELSE IF n.data.rank_static /\ Len(n.stop.values) > Len(n.data.shape)
    THEN [end |-> ValidationFailure("Slice 'stop' input dim size can't be bigger than 'data' rank."),
          node |-> n]
    ELSE IF n.data.rank_static /\ Len(n.step.values) > Len(n.data.shape)
    THEN [end |-> ValidationFailure("Slice 'step' input dim size can't be bigger than 'data' rank."),
          node |-> n]
    ELSE IF ~(/\ Len(n.start.values) = Len(n.stop.values)
              /\ Len(n.start.values) = Len(n.step.values))
    THEN [end |-> ValidationFailure("Slice 'start', 'stop', 'step' inputs must have compatible shapes."),
          node |-> n]
    ELSE validate_axes_and_infer(set_inputs_relevant_to_shape(n, 3))

\* ------------------------------------------------------------------------
\* pass::AddFakeQuantizeFusion: the callback of the matcher
\* ------------------------------------------------------------------------

\* A node of the graph a transformation works on: its inputs are the
\* nodes it reads (each node has one output); values are those of a
\* Constant, row by row, and the levels of a FakeQuantize.
Op(type, inputs, et, shape, values, friendly, rt_info) ==
    [type |-> type, inputs |-> inputs, et |-> et, shape |-> shape,
     values |-> values, friendly |-> friendly, rt_info |-> rt_info]

\* element::Type::bitwidth
bitwidth(et) ==
    CASE et = "u8" -> 8
      [] et = "f16" -> 16
      [] et = "f32" -> 32
      [] et = "i32" -> 32
      [] et = "f64" -> 64
      [] et = "i64" -> 64

RECURSIVE shape_size(_)
\* shape_size(shape): the product of the dimensions
shape_size(shape) ==
    IF shape = <<>> THEN 1 ELSE Head(shape) * shape_size(Tail(shape))

\* op::util::get_single_value: every element of the constant is the same
get_single_value(c) ==
    /\ c.values # <<>>
    /\ \A i \in 1..Len(c.values) : c.values[i] = c.values[1]

\* std::make_shared<T>(...): the graph with one more node, whose id is the
\* number of nodes so far plus one.
make_shared(g, node) == [g EXCEPT !.nodes = Append(@, node)]

\* The node created last.
last_made(g) == Len(g.nodes)

\* register_new_node: the node is added to the new nodes of the pass
register_new_node(g, id) == [g EXCEPT !.m_new_nodes = Append(@, id)]

\* Node::get_users: the nodes that read the output of id
get_users(g, id) ==
    {u \in 1..Len(g.nodes) :
        \E k \in 1..Len(g.nodes[u].inputs) : g.nodes[u].inputs[k] = id}

\* is_type<Convolution>, <GroupConvolution>, <ConvolutionBackpropData>,
\* <GroupConvolutionBackpropData> or <MatMul>
is_conv_or_mm(node) ==
    node.type \in {"Convolution", "GroupConvolution",
                   "ConvolutionBackpropData", "GroupConvolutionBackpropData",
                   "MatMul"}

\* The constant shapes other than (N, 1, 1, ..., 1) and (1, C, 1, ..., 1)
disallowed_shape(const_shape) ==
    /\ ~(const_shape[1] > 1 /\ const_shape[1] = shape_size(const_shape))
    /\ ~(Len(const_shape) > 1 /\ const_shape[2] = shape_size(const_shape))

\* a - b of two constants, one of which may hold a single value
subtract_values(a, b) ==
    [i \in 1..Max(Len(a), Len(b)) |->
        a[IF Len(a) = 1 THEN 1 ELSE i] - b[IF Len(b) = 1 THEN 1 ELSE i]]

\* The values of the node id if get_constant_from_source finds them: those
\* of a Constant, of a Reshape of one, of a Subtract of two.
RECURSIVE constant_values(_, _)
constant_values(g, id) ==
    LET node == g.nodes[id]
    IN  IF node.type = "Constant" THEN <<node.values>>
        ELSE IF node.type = "Reshape"
        THEN constant_values(g, node.inputs[1])
        ELSE IF node.type = "Subtract"
                /\ constant_values(g, node.inputs[1]) # <<>>
                /\ constant_values(g, node.inputs[2]) # <<>>
        THEN <<subtract_values(constant_values(g, node.inputs[1])[1],
                               constant_values(g, node.inputs[2])[1])>>
        ELSE <<>>

\* std::make_shared<Subtract>(from, new_const), then the constant
\* get_constant_from_source folds it to when there is one.
subtract_and_fold(g, from, new_const) ==
    LET sub == Op("Subtract", <<from, new_const>>, g.nodes[from].et,
                  IF Len(g.nodes[from].shape) >= Len(g.nodes[new_const].shape)
                  THEN g.nodes[from].shape ELSE g.nodes[new_const].shape,
                  <<>>, <<>>, {})
        Folded(g1) ==
            IF constant_values(g1, last_made(g1)) = <<>> THEN g1
            ELSE make_shared(g1, Op("Constant", <<>>, sub.et, sub.shape,
                                    constant_values(g1, last_made(g1))[1],
                                    <<>>, {}))
    IN  With(make_shared(g, sub), Folded)

\* copy_runtime_info(from, to): each node of to gets the merged runtime
\* info of the nodes of from.
copy_runtime_info(g, from, to) ==
    [g EXCEPT !.nodes =
        [id \in 1..Len(g.nodes) |->
            IF id \in to
            THEN [g.nodes[id] EXCEPT
                    !.rt_info = UNION {g.nodes[o].rt_info : o \in from}]
            ELSE g.nodes[id]]]

\* replace_node(target, replacement): every input that reads target reads
\* replacement.
replace_node(g, target, replacement) ==
    [g EXCEPT !.nodes =
        [id \in 1..Len(g.nodes) |->
            [g.nodes[id] EXCEPT
                !.inputs = [k \in 1..Len(@) |->
                               IF @[k] = target THEN replacement ELSE @[k]]]]]

\* float v of a whole number x (lines 50-51): the float nearest to x, the
\* one of even mantissa of two equally near.  A float has 24 bits of
\* mantissa, so neighbouring floats are 1 apart below 2^24 and the
\* distance doubles at every power of two from there on.
float_of(x) ==
    LET a == Abs(x)
        RECURSIVE float_step(_)
        float_step(step) ==
            IF a \div step < 16777216 THEN step ELSE float_step(2 * step)
        Nearest(step) ==
            LET q == a \div step
                r == a % step
                up == 2 * r > step \/ (2 * r = step /\ q % 2 = 1)
            IN  IF up THEN (q + 1) * step ELSE q * step
        nearest == With(float_step(1), Nearest)
    IN  IF x < 0 THEN 0 - nearest ELSE nearest

\* The constant the new FakeQuantize subtracts when the elements of the
\* Add's constant are all one value: the graph with the new Constant of
\* shape {1} made of float v, and its id (lines 50-53).
single_value_const(g, add_const) ==
    make_shared(g, Op("Constant", <<>>, g.nodes[add_const].et, <<1>>,
                      <<float_of(g.nodes[add_const].values[1])>>, <<>>, {}))

\* Reshape constants like (C, 1, 1) to (1, C, 1, 1)
reshaped_const(g, add_const, diff) ==
    LET const_shape == [i \in 1..diff |-> 1] \o g.nodes[add_const].shape
        Reshape(g1) ==
            make_shared(g1, Op("Reshape", <<add_const, last_made(g1)>>,
                               g.nodes[add_const].et, const_shape, <<>>,
                               <<>>, {}))
    IN  With(make_shared(g, Op("Constant", <<>>, "u64", <<Len(const_shape)>>,
                               const_shape, <<>>, {})),
             Reshape)

\* Lines 96-113: the new FakeQuantize replaces the old one.
fuse(g, m, new_const) ==
    LET fq == g.nodes[m.fq]
        Low(g1) == subtract_and_fold(g1, fq.inputs[2], new_const)
        High(g2) == subtract_and_fold(g2, fq.inputs[3], new_const)
        Fq(g2, g3) ==
            LET new_input_low == last_made(g2)
                new_input_high == last_made(g3)
                made == make_shared(g3,
                            Op("FakeQuantize",
                               <<m.input, new_input_low, new_input_high,
                                 fq.inputs[4], fq.inputs[5]>>,
                               g.nodes[m.input].et, g.nodes[m.input].shape,
                               fq.values, fq.friendly, {}))
                new_fq == last_made(made)
            IN  replace_node(
                    copy_runtime_info(
                        register_new_node(made, new_fq),
                        {m.add, m.fq},
                        {new_input_low, new_input_high, new_fq}),
                    m.fq, new_fq)
        Both(g2) == With2(g2, High(g2), Fq)
    IN  With(Low(g), Both)

\* The mutation of callback that makes the constant of one element before
\* it looks at the element type of the input.
callback_const_first(g, m) ==
    LET input == g.nodes[m.input]
        fq == g.nodes[m.fq]
        add_const == g.nodes[m.const]
        const_shape == add_const.shape
        by_shape == shape_size(const_shape) = 1
        by_value == ~by_shape /\ get_single_value(add_const)
        diff == Len(g.nodes[fq.inputs[1]].shape) - Len(const_shape)
        Declined(g1) == [returned |-> FALSE, graph |-> g1]
        Fused(g1) == [returned |-> TRUE, graph |-> fuse(g1, m, last_made(g1))]
    IN  IF by_value /\ bitwidth(input.et) < bitwidth("f32")
        THEN With(single_value_const(g, m.const), Declined)
        ELSE IF bitwidth(input.et) < bitwidth("f32")
        THEN [returned |-> FALSE, graph |-> g]
        ELSE IF fq.type # "FakeQuantize"
        THEN [returned |-> FALSE, graph |-> g]
        ELSE IF add_const.type # "Constant"
        THEN [returned |-> FALSE, graph |-> g]
        ELSE IF by_shape
        THEN [returned |-> TRUE, graph |-> fuse(g, m, m.const)]
        ELSE IF by_value
        THEN With(single_value_const(g, m.const), Fused)
        ELSE IF disallowed_shape(const_shape)
        THEN [returned |-> FALSE, graph |-> g]
        ELSE IF \E k \in 1..Len(g.nodes[m.add].inputs) :
                    is_conv_or_mm(g.nodes[g.nodes[m.add].inputs[k]])
        THEN [returned |-> FALSE, graph |-> g]
        ELSE IF \E u \in get_users(g, m.fq) : g.nodes[u].type = "Concat"
        THEN [returned |-> FALSE, graph |-> g]
        ELSE IF diff > 0
        THEN With(reshaped_const(g, m.const, diff), Fused)
        ELSE [returned |-> TRUE, graph |-> fuse(g, m, m.const)]

\* The callback of AddFakeQuantizeFusion on the match m: what it returns,
\* and the graph it leaves.
callback(g, m) ==
    LET input == g.nodes[m.input]
        fq == g.nodes[m.fq]
        add_const == g.nodes[m.const]
        const_shape == add_const.shape
        by_shape == shape_size(const_shape) = 1
        by_value == ~by_shape /\ get_single_value(add_const)
        diff == Len(g.nodes[fq.inputs[1]].shape) - Len(const_shape)
        Fused(g1) == [returned |-> TRUE, graph |-> fuse(g1, m, last_made(g1))]
    IN  IF bitwidth(input.et) < bitwidth("f32")
        THEN [returned |-> FALSE, graph |-> g]
        ELSE IF fq.type # "FakeQuantize"
        THEN [returned |-> FALSE, graph |-> g]
        ELSE IF add_const.type # "Constant"
        THEN [returned |-> FALSE, graph |-> g]
        ELSE IF by_shape
        THEN [returned |-> TRUE, graph |-> fuse(g, m, m.const)]
        ELSE IF by_value
        THEN With(single_value_const(g, m.const), Fused)
        ELSE IF disallowed_shape(const_shape)
        THEN [returned |-> FALSE, graph |-> g]
        ELSE IF \E k \in 1..Len(g.nodes[m.add].inputs) :
                    is_conv_or_mm(g.nodes[g.nodes[m.add].inputs[k]])
        THEN [returned |-> FALSE, graph |-> g]
        ELSE IF \E u \in get_users(g, m.fq) : g.nodes[u].type = "Concat"
        THEN [returned |-> FALSE, graph |-> g]
        ELSE IF diff > 0
        THEN With(reshaped_const(g, m.const, diff), Fused)
        ELSE [returned |-> TRUE, graph |-> fuse(g, m, m.const)]

\* ------------------------------------------------------------------------
\* Node: instance ids
\* ------------------------------------------------------------------------

\* The mutation of fetch_add that returns the value and stores nothing.
fetch_add_nothing(counter, n) == [value |-> counter, stored |-> counter]

\* std::atomic<size_t>::fetch_add(n): the value before, and the value
\* stored, in one step.
fetch_add(counter, n) == [value |-> counter, stored |-> counter + n]

\* Node::operator<
node_less(a, b) == a.m_instance_id < b.m_instance_id

\* A thread that constructs no node.
NoConstruction == [pc |-> "idle", started |-> 0, m_instance_id |-> 0]

\* ------------------------------------------------------------------------
\* op::v1::Reverse as the reference tests use it
\* ------------------------------------------------------------------------

\* A tensor of a test: element type, shape, values row by row (those of a
\* boolean tensor are 0 and 1); is_constant tells a Constant from a
\* Parameter.
TestTensor(et, shape, values, is_constant) ==
    [et |-> et, shape |-> shape, values |-> values,
     is_constant |-> is_constant]

RECURSIVE coordinate(_, _)
\* The coordinate of the element at the row-major position i (from 0).
coordinate(i, shape) ==
    IF shape = <<>> THEN <<>>
    ELSE <<i \div shape_size(Tail(shape))>>
            \o coordinate(i % shape_size(Tail(shape)), Tail(shape))

RECURSIVE coordinate_index(_, _)
\* The row-major position (from 0) of the element at coordinate c.
coordinate_index(c, shape) ==
    IF shape = <<>> THEN 0
    ELSE Head(c) * shape_size(Tail(shape))
            + coordinate_index(Tail(c), Tail(shape))

\* The axes a Reverse reverses: those listed in index mode, those the mask
\* marks in mask mode.
reversed_axes(mode, axes) ==
    IF mode = "MASK"
    THEN {a \in 0..(Len(axes.values) - 1) : axes.values[a + 1] # 0}
    ELSE {axes.values[k] : k \in 1..Len(axes.values)}

\* The mutation of reverse that reverses the selected axes but the last.
reverse_but_last(arg, shape, axes) ==
    [k \in 1..shape_size(shape) |->
        LET out == coordinate(k - 1, shape)
            in == [a \in 1..Len(shape) |->
                      IF (a - 1) \in axes /\ a < Len(shape)
                      THEN shape[a] - 1 - out[a] ELSE out[a]]
        IN  arg[coordinate_index(in, shape) + 1]]

\* The reference of Reverse: each element of the output is the element of
\* the input at the coordinate mirrored on every reversed axis.
reverse(arg, shape, axes) ==
    [k \in 1..shape_size(shape) |->
        LET out == coordinate(k - 1, shape)
            in == [a \in 1..Len(shape) |->
                      IF (a - 1) \in axes
                      THEN shape[a] - 1 - out[a] ELSE out[a]]
        IN  arg[coordinate_index(in, shape) + 1]]

\* The mutation of Reverse_validate that does not count the entries of
\* the axes.
Reverse_validate_uncounted(data, axes, mode) ==
    IF mode = "MASK" /\ axes.et # "boolean"
    THEN ValidationFailure("In 'mask' mode the second input must contain boolean values.")
    ELSE IF Len(axes.shape) # 1
    THEN ValidationFailure("The reversed_axes input must be a 1D tensor")
    ELSE IF mode = "MASK" /\ axes.shape[1] # Len(data.shape)
    THEN ValidationFailure("The number of elements in the reversed_axes tensor must match the input data tensor rank in 'mask' mode.")
    ELSE IF /\ mode = "INDEX" /\ axes.is_constant
            /\ \E k \in 1..Len(axes.values) : axes.values[k] >= Len(data.shape)
    THEN ValidationFailure("Some of the provided axes are out of bounds")
    ELSE Ok

\* Reverse::validate_and_infer_types on data of static rank: how the
\* construction of the node ends.  The number of entries of a 1-D axes
\* input is its one dimension, whether the input is a Constant or not; its
\* values are known when it is a Constant.
Reverse_validate(data, axes, mode) ==
    IF mode = "MASK" /\ axes.et # "boolean"
    THEN ValidationFailure("In 'mask' mode the second input must contain boolean values.")
    ELSE IF Len(axes.shape) # 1
    THEN ValidationFailure("The reversed_axes input must be a 1D tensor")
    ELSE IF mode = "MASK" /\ axes.shape[1] # Len(data.shape)
    THEN ValidationFailure("The number of elements in the reversed_axes tensor must match the input data tensor rank in 'mask' mode.")
    ELSE IF mode = "INDEX" /\ axes.shape[1] > Len(data.shape)
    THEN ValidationFailure("Too many axes have been provided for given input shape.")
    ELSE IF /\ mode = "INDEX" /\ axes.is_constant
            /\ \E k \in 1..Len(axes.values) : axes.values[k] >= Len(data.shape)
    THEN ValidationFailure("Some of the provided axes are out of bounds")
    ELSE Ok

\* 0, 1, ..., n - 1
Iota(n) == [i \in 1..n |-> i - 1]

\* ReverseParams(constantTensor, reverseMode, dataTensor, expectedTensor)
ReverseParams(constantTensor, reverseMode, dataTensor, expectedTensor) ==
    [axes |-> constantTensor, mode |-> reverseMode, data |-> dataTensor,
     expected |-> expectedTensor]

\* generateParams: the cases of ReferenceReverseTest with their hardcoded
\* references.
generateParams ==
    LET I64(shape, values) == TestTensor("i64", shape, values, TRUE)
        Mask(values) == TestTensor("boolean", <<Len(values)>>, values, TRUE)
        Data(shape) == TestTensor("T", shape, Iota(shape_size(shape)), FALSE)
    IN {ReverseParams(I64(<<0>>, <<>>), "INDEX", Data(<<8>>),
                      <<0, 1, 2, 3, 4, 5, 6, 7>>),
        ReverseParams(I64(<<1>>, <<0>>), "INDEX", Data(<<8>>),
                      <<7, 6, 5, 4, 3, 2, 1, 0>>),
        ReverseParams(I64(<<1>>, <<0>>), "INDEX", Data(<<4, 3>>),
                      <<9, 10, 11, 6, 7, 8, 3, 4, 5, 0, 1, 2>>),
        ReverseParams(I64(<<1>>, <<1>>), "INDEX", Data(<<4, 3>>),
                      <<2, 1, 0, 5, 4, 3, 8, 7, 6, 11, 10, 9>>),
        ReverseParams(Mask(<<0, 1>>), "MASK", Data(<<4, 3>>),
                      <<2, 1, 0, 5, 4, 3, 8, 7, 6, 11, 10, 9>>),
        ReverseParams(I64(<<2>>, <<0, 1>>), "INDEX", Data(<<4, 3>>),
                      <<11, 10, 9, 8, 7, 6, 5, 4, 3, 2, 1, 0>>),
        ReverseParams(Mask(<<1, 1>>), "MASK", Data(<<4, 3>>),
                      <<11, 10, 9, 8, 7, 6, 5, 4, 3, 2, 1, 0>>),
        ReverseParams(I64(<<1>>, <<0>>), "INDEX", Data(<<2, 4, 3>>),
                      <<12, 13, 14, 15, 16, 17, 18, 19, 20, 21, 22, 23,
                        0, 1, 2, 3, 4, 5, 6, 7, 8, 9, 10, 11>>),
        ReverseParams(I64(<<1>>, <<1>>), "INDEX", Data(<<2, 4, 3>>),
                      <<9, 10, 11, 6, 7, 8, 3, 4, 5, 0, 1, 2,
                        21, 22, 23, 18, 19, 20, 15, 16, 17, 12, 13, 14>>),
        ReverseParams(I64(<<1>>, <<2>>), "INDEX", Data(<<2, 4, 3>>),
                      <<2, 1, 0, 5, 4, 3, 8, 7, 6, 11, 10, 9,
                        14, 13, 12, 17, 16, 15, 20, 19, 18, 23, 22, 21>>),
        ReverseParams(I64(<<2>>, <<0, 1>>), "INDEX", Data(<<2, 4, 3>>),
                      <<21, 22, 23, 18, 19, 20, 15, 16, 17, 12, 13, 14,
                        9, 10, 11, 6, 7, 8, 3, 4, 5, 0, 1, 2>>),
        ReverseParams(I64(<<2>>, <<0, 2>>), "INDEX", Data(<<2, 4, 3>>),
                      <<14, 13, 12, 17, 16, 15, 20, 19, 18, 23, 22, 21,
                        2, 1, 0, 5, 4, 3, 8, 7, 6, 11, 10, 9>>),
        ReverseParams(I64(<<2>>, <<1, 2>>), "INDEX", Data(<<2, 4, 3>>),
                      <<11, 10, 9, 8, 7, 6, 5, 4, 3, 2, 1, 0,
                        23, 22, 21, 20, 19, 18, 17, 16, 15, 14, 13, 12>>),
        ReverseParams(I64(<<3>>, <<0, 1, 2>>), "INDEX", Data(<<2, 4, 3>>),
                      <<23, 22, 21, 20, 19, 18, 17, 16, 15, 14, 13, 12,
                        11, 10, 9, 8, 7, 6, 5, 4, 3, 2, 1, 0>>)}

\* The constructions the tests expect to throw: Data is f32 of shape
\* {2, 2, 2} in each.
ExpectThrow ==
    LET Data == TestTensor("f32", <<2, 2, 2>>, Iota(8), FALSE)
    IN {ReverseParams(TestTensor("i64", <<1, 1>>, <<0>>, FALSE), "INDEX",
                      Data, <<>>),
        ReverseParams(TestTensor("boolean", <<2>>, <<0, 0>>, FALSE),
                      "MASK", Data, <<>>),
        ReverseParams(TestTensor("i64", <<2>>, <<1, 10>>, TRUE), "INDEX",
                      Data, <<>>),
        ReverseParams(TestTensor("i64", <<4>>, <<0, 1, 2, 3>>, TRUE),
                      "INDEX", Data, <<>>)}

\* ------------------------------------------------------------------------
\* ONNXModelEditor
\* ------------------------------------------------------------------------

\* A dimension of a TensorShapeProto: a dim_value or a dim_param, -1 and ""
\* for the one it does not have.
Dim(dim_value, dim_param) == [dim_value |-> dim_value, dim_param |-> dim_param]

\* A ValueInfoProto: the name of a tensor, the element type of its tensor
\* type, whether that has a shape, and the dimensions of the shape.
ValueInfo(name, elem_type, has_shape, shape) ==
    [name |-> name, elem_type |-> elem_type, has_shape |-> has_shape,
     shape |-> shape]

\* A NodeProto: its name ("" when it has none), its inputs and outputs.
NodeProto(name, input, output) ==
    [name |-> name, input |-> input, output |-> output]

\* A GraphProto
GraphProto(input, output, initializer, value_info, node) ==
    [input |-> input, output |-> output, initializer |-> initializer,
     value_info |-> value_info, node |-> node]

\* find_graph_input, find_graph_output, find_graph_value_info: the places
\* of the entries with the name (the first is the one found).
find_value_info(entries, name) ==
    {i \in 1..Len(entries) : entries[i].name = name}

\* find_graph_initializer: of an initializer the model keeps the name, ""
\* when it has none.
find_graph_initializer(graph, name) ==
    name # "" /\ \E i \in 1..Len(graph.initializer) : graph.initializer[i] = name

\* EdgeMapper(): the mapper of no graph.  EdgeMapper(graph): what the
\* mapper holds is taken from the nodes of the graph when it is built.
DefaultEdgeMapper == [node |-> <<>>]
EdgeMapper(graph) == [node |-> graph.node]

\* EdgeMapper::is_correct_tensor_name: the name is an input or an output
\* of a node the mapper was built from.
is_correct_tensor_name(mapper, name) ==
    \E i \in 1..Len(mapper.node) :
        \/ \E j \in 1..Len(mapper.node[i].input) : mapper.node[i].input[j] = name
        \/ \E j \in 1..Len(mapper.node[i].output) : mapper.node[i].output[j] = name

\* EdgeMapper::get_node_index of the node with the name: its index among
\* the nodes the mapper was built from, -1 (an exception is thrown) when
\* none or several have the name.
get_node_index(mapper, node_name) ==
    LET found == {i \in 1..Len(mapper.node) : mapper.node[i].name = node_name}
    IN  IF Cardinality(found) = 1 THEN (CHOOSE i \in found : TRUE) - 1
        ELSE -1

\* The editor: the model, the mapper and whether the mapper is up to date.
Impl(m_model_proto) ==
    [m_model_proto |-> m_model_proto, m_edge_mapper |-> DefaultEdgeMapper,
     m_is_mapper_updated |-> FALSE]

\* update_mapper_if_needed
update_mapper_if_needed(impl) ==
    [impl EXCEPT
        !.m_edge_mapper = IF ~impl.m_is_mapper_updated
                          THEN EdgeMapper(impl.m_model_proto)
                          ELSE @,
        !.m_is_mapper_updated = TRUE]

\* The entries of name current renamed: find_graph_* finds the first.
renamed_first(entries, current, new_name) ==
    IF find_value_info(entries, current) = {} THEN entries
    ELSE LET first == CHOOSE i \in find_value_info(entries, current) :
                         \A j \in find_value_info(entries, current) : i <= j
         IN  [entries EXCEPT ![first].name = new_name]

\* The loop of set_tensor_name over one node: the first output of the name
\* is renamed and the inputs are skipped, or every input of the name is
\* renamed.
renamed_in_node(node, current, new_name) ==
    LET outs == {j \in 1..Len(node.output) : node.output[j] = current}
    IN  IF outs # {}
        THEN [node EXCEPT !.output[CHOOSE j \in outs :
                                      \A k \in outs : j <= k] = new_name]
        ELSE [node EXCEPT !.input = [j \in 1..Len(node.input) |->
                                       IF node.input[j] = current
                                       THEN new_name ELSE node.input[j]]]

\* set_tensor_name: whether the name counts as used.  The mapper is asked
\* only when no array of the graph holds the name.
in_graph_arrays(graph, name) ==
    \/ find_value_info(graph.input, name) # {}
    \/ find_value_info(graph.output, name) # {}
    \/ find_graph_initializer(graph, name)
    \/ find_value_info(graph.value_info, name) # {}

\* The graph after the renaming of set_tensor_name.
with_tensor_renamed(graph, current, new_name) ==
    [input |-> renamed_first(graph.input, current, new_name),
     output |-> renamed_first(graph.output, current, new_name),
     initializer |-> IF find_graph_initializer(graph, current)
                     THEN [graph.initializer EXCEPT
                             ![CHOOSE i \in 1..Len(graph.initializer) :
                                 /\ graph.initializer[i] = current
                                 /\ \A j \in 1..(i - 1) :
                                       graph.initializer[j] # current]
                                 = new_name]
                     ELSE graph.initializer,
     value_info |-> renamed_first(graph.value_info, current, new_name),
     node |-> [i \in 1..Len(graph.node) |->
                 renamed_in_node(graph.node[i], current, new_name)]]

\* add_dim_to_onnx_shape(dim, onnx_shape) for a dimension of the length
\* given, -1 for a dynamic one: the dimension added.
add_dim_to_onnx_shape(length) ==
    IF length >= 0 THEN Dim(length, "") ELSE Dim(-1, "__dynamic_dimension__")

\* set_dim_param of set_name_for_dimension on the first entry of the name:
\* the shape grows by dynamic dimensions up to the index.
with_dim_param(entries, name, shape_dim_index, dim_name) ==
    IF find_value_info(entries, name) = {} THEN entries
    ELSE LET first == CHOOSE i \in find_value_info(entries, name) :
                         \A j \in find_value_info(entries, name) : i <= j
             shape == entries[first].shape
             size  == IF Len(shape) <= shape_dim_index
                      THEN shape_dim_index + 1 ELSE Len(shape)
         IN  [entries EXCEPT
                 ![first].has_shape = TRUE,
                 ![first].shape =
                     [d \in 1..size |->
                         IF d = shape_dim_index + 1 THEN Dim(-1, dim_name)
                         ELSE IF d <= Len(shape) THEN shape[d]
                         ELSE add_dim_to_onnx_shape(-1)]]

\* The element types an input or an initializer is given, the last one not
\* allowed in ONNX (is_supported_ng_type).
is_supported_ng_type(elem_type) == elem_type \in {"f32", "i64"}

\* modify_input_type: the input, or none when the type is not allowed.
modify_input_type(onnx_input, elem_type) ==
    IF is_supported_ng_type(elem_type)
    THEN <<[onnx_input EXCEPT !.elem_type = elem_type]>>
    ELSE <<>>

\* A PartialShape: of dynamic rank, or the lengths of its dimensions, -1
\* for a dynamic one.
PartialShape(rank_static, lengths) ==
    [rank_static |-> rank_static, lengths |-> lengths]

\* modify_input_shape
modify_input_shape(onnx_input, new_shape) ==
    IF ~new_shape.rank_static
    THEN [onnx_input EXCEPT !.has_shape = FALSE, !.shape = <<>>]
    ELSE [onnx_input EXCEPT
            !.has_shape = TRUE,
            !.shape = [d \in 1..Len(new_shape.lengths) |->
                          add_dim_to_onnx_shape(new_shape.lengths[d])]]

\* The first entry of the name among the inputs (find_graph_input), 0 for
\* none.
first_input(graph, name) ==
    IF find_value_info(graph.input, name) = {} THEN 0
    ELSE CHOOSE i \in find_value_info(graph.input, name) :
            \A j \in find_value_info(graph.input, name) : i <= j

\* set_input_values for one input: the initializer of the name, or a new
\* one, takes the name, and the input of the name the type and the shape
\* of the values.  The new initializer is added before the type of the
\* values is found not allowed.
with_input_values(graph, name, elem_type, dims) ==
    LET added == IF find_graph_initializer(graph, name) THEN graph.initializer
                 ELSE Append(graph.initializer, "")
        at == first_input(graph, name)
    IN  IF ~is_supported_ng_type(elem_type)
        THEN [graph EXCEPT !.initializer = added]
        ELSE [graph EXCEPT
                !.initializer =
                    IF find_graph_initializer(graph, name) THEN @
                    ELSE Append(@, name),
                !.input =
                    IF at = 0 THEN @
                    ELSE [@ EXCEPT
                            ![at].elem_type = elem_type,
                            ![at].has_shape = TRUE,
                            ![at].shape = [d \in 1..Len(dims) |->
                                              Dim(dims[d], "")]]]

\* ~InferShapesAutoRelease once infer_shapes() has run
clear_value_info(graph) == [graph EXCEPT !.value_info = <<>>]

\* SubgraphExtractor on the outputs of the node at place keep: the nodes
\* behind it go, and its outputs are the outputs of the graph.
extract_subgraph(graph, keep) ==
    [graph EXCEPT
        !.node = SubSeq(graph.node, 1, keep),
        !.output = [j \in 1..Len(graph.node[keep].output) |->
                       ValueInfo(graph.node[keep].output[j], "f32", TRUE,
                                 <<>>)]]

\* ------------------------------------------------------------------------
\* OstreamHashWrapper
\* ------------------------------------------------------------------------

\* uint64_t m_res = 0
ZeroWord == [i \in 1..cel_size |-> 0]

\* A char added to m_res: plain char is signed in this build, a byte from
\* 128 on is a negative number.
WordOfChar(c) ==
    [i \in 1..cel_size |-> IF i = 1 THEN c ELSE IF c >= 128 THEN 255 ELSE 0]

RECURSIVE sum_words(_, _, _, _)
\* while (i++ < n64) m_res += *(intS++), from the word k on
sum_words(m_res, s, k, n64) ==
    IF k >= n64 THEN m_res
    ELSE sum_words(WordAdd(m_res, ChunkAt(s, k)), s, k + 1, n64)

RECURSIVE sum_chars(_, _, _)
\* for (i = 0; i < rest; i++) m_res += s[n - rest + i], from the char at
\* place k (from 1) on
sum_chars(m_res, s, k) ==
    IF k > Len(s) THEN m_res
    ELSE sum_chars(WordAdd(m_res, WordOfChar(s[k])), s, k + 1)

\* OstreamHashWrapper::xsputn(s, n): m_res afterwards.
xsputn(m_res, s) ==
    LET n64 == Len(s) \div cel_size
    IN  sum_chars(sum_words(m_res, s, 0, n64), s, cel_size * n64 + 1)

\* ------------------------------------------------------------------------
\* skipped_branch_memory_dependencies
\* ------------------------------------------------------------------------

\* processing_order.get_processing_number(node): the place of the node in
\* the processing order.
get_processing_number(processing_order, node) ==
    CHOOSE i \in 1..Len(processing_order) : processing_order[i] = node

\* The mutation of last_user that takes the first user in processing order.
last_user_is_first(processing_order, users) ==
    CHOOSE u \in users :
        \A v \in users : get_processing_number(processing_order, u)
                             <= get_processing_number(processing_order, v)

\* The loop over the users of B: lastUsr is a user of the largest
\* processing number.
last_user(processing_order, users) ==
    CHOOSE u \in users :
        \A v \in users : get_processing_number(processing_order, v)
                             <= get_processing_number(processing_order, u)

RECURSIVE mark_between(_, _, _, _, _)
\* The loop from itrA on: for every node A up to the last user of B, or up
\* to the end of the processing order when the last user is not met, the
\* pass calls add_memory_dependency(A, B) and add_memory_dependency(B, A).
\* requested holds the calls made: the pairs (node, dep).
mark_between(requested, processing_order, itrA, lastUsr, nodeB) ==
    IF itrA > Len(processing_order) \/ processing_order[itrA] = lastUsr
    THEN requested
    ELSE mark_between(
             requested \cup {<<processing_order[itrA], nodeB>>,
                             <<nodeB, processing_order[itrA]>>},
             processing_order, itrA + 1, lastUsr, nodeB)

\* ------------------------------------------------------------------------
\* State
\* ------------------------------------------------------------------------

VARIABLES
    writer,     \* a ConstantWriter under a sequence of write calls
    calls,      \* the write calls made on it: buffer, offset, bytes appended
    f,          \* the function handed to a pass
    left,       \* the function as the pass left it (before a pass: f)
    xml_file,   \* Serialize: the xml stream (Hash: the xml hash stream)
    bin_file,   \* Serialize: the bin stream (Hash: the bin hash stream)
    disk,       \* Serialize with paths: the output files that exist
    m_stream,   \* StreamSerialize: the stream
    xml_doc,    \* the document a pass has saved (none: <<>>)
    earlier,    \* what Hash wrote for the same graph as an earlier
                \* allocation built it (none: <<>>)
    outcome,    \* the pass that ran: its version, the position of its
                \* stream on entry, its custom data, how it ended
    slice,      \* a Slice node
    validated,  \* the validations of the Slice node so far: how each
                \* ended and the node it found
    graph,      \* the nodes of a function under AddFakeQuantizeFusion and
                \* the new nodes the pass has registered
    matcher,     \* the match of the pattern, what the callback returned
                \* and the graph it was called on
    m_next_instance_id,  \* Node::m_next_instance_id
    threads,  \* each thread: where it is in a Node constructor
    built,  \* the nodes constructed: id, when begun and when finished
    now,  \* the number of constructions begun or finished so far
    test,  \* the Reverse test case: axes, mode, data, hardcoded reference
    made,  \* how the construction of the Reverse node ended (not yet: <<>>)
    outputs,  \* the outputs of the function, and of the function on them
    m_pimpl,  \* the ONNXModelEditor: model, edge mapper, m_is_mapper_updated
    consulted,  \* each use of the edge mapper: who asked, the mapper, the model then
    edits,  \* the number of operations on the editor so far
    text,  \* the bytes a serialization writes
    xmlHash,  \* an OstreamHashWrapper: m_res, the bytes and the write calls taken
    otherHash,  \* the OstreamHashWrapper of another run that writes the same bytes
    program,  \* the program: its processing order and the users of each node
    itrB,  \* skipped_branch_memory_dependencies::run: the place of itrB (0: not called)
    memory_dependencies  \* the calls add_memory_dependency(node, dep) made: the pairs (node, dep)

vars == <<writer, calls, f, left, xml_file, bin_file, disk, m_stream, xml_doc,
          earlier, outcome, slice, validated, out_of_range, graph, matcher,
          m_next_instance_id, threads, built, now,
          test, made, outputs,
          m_pimpl, consulted, edits,
          text, xmlHash, otherHash,
          program, itrB, memory_dependencies>>

writerVars == <<writer, calls>>
passVars == <<f, left, xml_file, bin_file, disk, m_stream, xml_doc, earlier,
             outcome>>
sliceVars == <<slice, validated, out_of_range>>
fusionVars == <<graph, matcher>>

NoRun ==
    [pass |-> "none", version |-> UNSPECIFIED, entry |-> 0, custom |-> <<>>,
     end |-> Ok]

\* No pass and no function: the state of the passes while only the constant
\* writer is exercised.
IdlePasses ==
    /\ f = [ops |-> <<>>, parameters |-> <<>>, sinks |-> <<>>,
            results |-> <<>>, rt_info |-> {}, type |-> "Function", id |-> 1,
            friendly |-> <<>>, shapes |-> <<>>, attributes |-> <<>>]
    /\ left = f
    /\ xml_file = NewStream(<<>>)
    /\ bin_file = NewStream(<<>>)
    /\ disk = {}
    /\ m_stream = NewStream(<<>>)
    /\ xml_doc = <<>>
    /\ earlier = <<>>
    /\ outcome = NoRun

\* No graph under transformation.
IdleFusion ==
    /\ graph = [nodes |-> <<>>, m_new_nodes |-> <<>>]
    /\ matcher = [map |-> [input |-> 0, const |-> 0, add |-> 0, fq |-> 0],
                  returned |-> <<>>, before |-> graph]

\* No node under validation.
IdleSlice ==
    /\ slice = SliceNode(Tensor("f32", FALSE, <<>>), IndexInput(FALSE, <<>>),
                         IndexInput(FALSE, <<>>), IndexInput(FALSE, <<>>),
                         NoAxes)
    /\ validated = <<>>
    /\ out_of_range = int64_min

ctorVars == <<m_next_instance_id, threads, built, now>>

IdleCtor ==
    /\ m_next_instance_id = 0
    /\ threads = [t \in 1..NumThreads |-> NoConstruction]
    /\ built = <<>>
    /\ now = 0

reverseVars == <<test, made, outputs>>

IdleReverse ==
    /\ test = ReverseParams(TestTensor("i64", <<0>>, <<>>, TRUE), "INDEX",
                            TestTensor("T", <<0>>, <<>>, FALSE), <<>>)
    /\ made = <<>>
    /\ outputs = <<>>

editorVars == <<m_pimpl, consulted, edits>>

IdleEditor ==
    /\ m_pimpl = Impl(GraphProto(<<>>, <<>>, {}, <<>>, <<>>))
    /\ consulted = <<>>
    /\ edits = 0

hashVars == <<text, xmlHash, otherHash>>

IdleHash ==
    /\ text = <<>>
    /\ xmlHash = [m_res |-> ZeroWord, taken |-> 0, calls |-> 0]
    /\ otherHash = [m_res |-> ZeroWord, taken |-> 0, calls |-> 0]

skipVars == <<program, itrB, memory_dependencies>>

IdleSkip ==
    /\ program = [processing_order |-> <<>>, users |-> <<>>]
    /\ itrB = 0
    /\ memory_dependencies = {}

\* The variables of the other operations, and their idle state.
laterVars == <<ctorVars, reverseVars, editorVars, hashVars, skipVars>>
IdleLater == IdleCtor /\ IdleReverse /\ IdleEditor /\ IdleHash /\ IdleSkip

\* No operation and no graph: the state of the operations while the passes
\* or the constant writer are exercised.
opVars == <<sliceVars, fusionVars, laterVars>>
IdleOps == IdleSlice /\ IdleFusion /\ IdleLater

\* No writer of its own: the state of the constant writer while the passes
\* are exercised (each pass constructs its own).
IdleWriter ==
    /\ writer = NewConstantWriter(NewStream(<<>>), TRUE)
    /\ calls = <<>>

\* What an operation leaves alone: everything but its own variables.
besideCtor == <<writerVars, passVars, sliceVars, fusionVars, reverseVars, editorVars, hashVars, skipVars>>
IdleBesideCtor == IdleWriter /\ IdlePasses /\ IdleSlice /\ IdleFusion /\ IdleReverse /\ IdleEditor /\ IdleHash /\ IdleSkip
besideReverse == <<writerVars, passVars, sliceVars, fusionVars, ctorVars, editorVars, hashVars, skipVars>>
IdleBesideReverse == IdleWriter /\ IdlePasses /\ IdleSlice /\ IdleFusion /\ IdleCtor /\ IdleEditor /\ IdleHash /\ IdleSkip
besideEditor == <<writerVars, passVars, sliceVars, fusionVars, ctorVars, reverseVars, hashVars, skipVars>>
IdleBesideEditor == IdleWriter /\ IdlePasses /\ IdleSlice /\ IdleFusion /\ IdleCtor /\ IdleReverse /\ IdleHash /\ IdleSkip
besideHash == <<writerVars, passVars, sliceVars, fusionVars, ctorVars, reverseVars, editorVars, skipVars>>
IdleBesideHash == IdleWriter /\ IdlePasses /\ IdleSlice /\ IdleFusion /\ IdleCtor /\ IdleReverse /\ IdleEditor /\ IdleSkip
besideSkip == <<writerVars, passVars, sliceVars, fusionVars, ctorVars, reverseVars, editorVars, hashVars>>
IdleBesideSkip == IdleWriter /\ IdlePasses /\ IdleSlice /\ IdleFusion /\ IdleCtor /\ IdleReverse /\ IdleEditor /\ IdleHash

\* ------------------------------------------------------------------------
\* The constant writer under any sequence of write calls
\* ------------------------------------------------------------------------

\* The content a stream may hold when it is handed over.
InitialContents == {<<>>, <<255, 255>>}

InitWriter ==
    /\ \E c \in InitialContents, compress \in BOOLEAN :
          writer = NewConstantWriter(NewStream(c), compress)
    /\ calls = <<>>
    /\ IdlePasses
    /\ IdleOps

\* One call write(ptr, size) with the size of the buffer at ptr.
Write(ptr) ==
    /\ Len(calls) < MaxWrites
    /\ \E oob \in BOOLEAN :
          LET r == write(writer, ptr, Len(Mem[ptr]), oob)
          IN  /\ writer' = r.cw
              /\ calls' = Append(calls,
                     [ptr |-> ptr, offset |-> r.offset,
                      appended |-> Len(r.cw.m_binary_output.buf)
                                     - Len(writer.m_binary_output.buf)])
    /\ UNCHANGED <<passVars, opVars>>

NextWriter == \E ptr \in Ptrs : Write(ptr)

SpecWriter == InitWriter /\ [][NextWriter]_vars

\* ------------------------------------------------------------------------
\* The passes on a function
\* ------------------------------------------------------------------------

\* The number of edges of each from_layer of f, by layer id.
ties_of(fn) ==
    LET Sizes(edges) ==
            [layer \in 1..Len(fn.ops) |->
                Cardinality({i \in 1..Len(edges) :
                                edges[i].from_layer = layer - 1})]
    IN  With(collect_edges(fn, 1), Sizes)

\* The orders of n edges of one from_layer.
TiePermutations(n) ==
    {order \in [1..n -> 1..n] : \A i, j \in 1..n : i # j => order[i] # order[j]}

RECURSIVE OrdersFrom(_, _)
\* One order for each from_layer from layer on, every from_layer with any
\* order of its edges whatever the orders of the others.
OrdersFrom(sizes, layer) ==
    IF layer > Len(sizes) THEN {<<>>}
    ELSE {<<order>> \o rest : order \in TiePermutations(sizes[layer]),
                              rest \in OrdersFrom(sizes, layer + 1)}

\* The orders std::sort can leave the edges of f in: for every from_layer
\* any order of its edges, chosen apart from the orders of the other
\* from_layers.
TieOrders(fn) == UNION {OrdersFrom(sizes, 1) : sizes \in {ties_of(fn)}}

\* What a run draws from its environment: the order std::sort leaves equal
\* edges in and the length of the xml text.  No comparison of a run reads
\* past a buffer (two constants of a function here have one size or two
\* weak hashes), so its outcome is not drawn; Write draws it.
RunInputs(fn) ==
    [oob : {FALSE}, ties : TieOrders(fn), xml_len : 1..MaxXmlLen]

\* What a custom data serializer writes: nothing (or no serializer), or two
\* chunks.
CustomData == {<<>>, << <<9>>, <<8, 7>> >>}

InitPasses ==
    /\ f \in Functions
    /\ left = f
    /\ \E c \in InitialContents :
          /\ xml_file = NewStream(c)
          /\ bin_file = NewStream(c)
          /\ m_stream = NewStream(c)
    /\ disk = {}
    /\ xml_doc = <<>>
    /\ earlier = <<>>
    /\ outcome = NoRun
    /\ IdleWriter
    /\ IdleOps

\* Serialize(xmlFile, binFile, version).run_on_function(f)
SerializeToStreams(ver, in) ==
    /\ outcome.pass = "none"
    /\ \E r \in {serializeFunc(xml_file, bin_file, f, ver, FALSE, in)} :
           /\ xml_file' = r.xml_file
           /\ bin_file' = r.bin_file
           /\ xml_doc' = r.saved
           /\ left' = r.f
           /\ outcome' = [pass |-> "Serialize", version |-> ver,
                          entry |-> tellp(bin_file), custom |-> <<>>,
                          end |-> r.end]
    /\ UNCHANGED <<f, disk, m_stream, earlier, writerVars, opVars>>

\* Serialize(xmlPath, binPath, version).run_on_function(f)
SerializeToPaths(ver, bin_opens, xml_opens, in) ==
    /\ outcome.pass = "none"
    /\ \E r \in {Serialize_run_on_paths(f, ver, bin_opens, xml_opens, in)} :
           /\ xml_file' = r.xml_file
           /\ bin_file' = r.bin_file
           /\ disk' = r.disk
           /\ xml_doc' = r.saved
           /\ left' = r.f
           /\ outcome' = [pass |-> "SerializePaths", version |-> ver,
                          entry |-> 0, custom |-> <<>>, end |-> r.end]
    /\ UNCHANGED <<f, m_stream, earlier, writerVars, opVars>>

\* StreamSerialize(stream, custom_data_serializer, version).run_on_function(f)
StreamSerialize(ver, custom, in) ==
    /\ outcome.pass = "none"
    /\ \E r \in {StreamSerialize_run(m_stream, f, ver, custom, in)} :
           /\ m_stream' = r.stream
           /\ xml_doc' = r.saved
           /\ left' = r.f
           /\ outcome' = [pass |-> "StreamSerialize", version |-> ver,
                          entry |-> tellp(m_stream), custom |-> custom,
                          end |-> r.end]
    /\ UNCHANGED <<f, xml_file, bin_file, disk, earlier, writerVars, opVars>>

\* Hash(output_hash_value).run_on_function(f)
Hash(in) ==
    /\ outcome.pass = "none"
    /\ \E r \in {serializeFunc(NewHashStream, NewHashStream, f, UNSPECIFIED,
                              TRUE, in)} :
           /\ xml_file' = r.xml_file
           /\ bin_file' = r.bin_file
           /\ xml_doc' = r.saved
           /\ left' = r.f
           /\ outcome' = [pass |-> "Hash", version |-> UNSPECIFIED,
                          entry |-> -1, custom |-> <<>>, end |-> r.end]
    /\ UNCHANGED <<f, disk, m_stream, earlier, writerVars, opVars>>

NextPasses ==
    \E in \in RunInputs(f) :
        \/ \E ver \in Versions : SerializeToStreams(ver, in)
        \/ \E ver \in Versions, bin_opens \in BOOLEAN, xml_opens \in BOOLEAN :
              SerializeToPaths(ver, bin_opens, xml_opens, in)
        \/ \E ver \in Versions, custom \in CustomData :
              StreamSerialize(ver, custom, in)
        \/ Hash(in)

Spec == InitPasses /\ [][NextPasses]_vars

\* ------------------------------------------------------------------------
\* Hash of one graph built by two allocations
\* ------------------------------------------------------------------------

\* The function with friendly names set: name on its node k, net on itself
\* (<<>>: none set).
WithFriendlyNames(fn, k, name, net) ==
    [fn EXCEPT !.ops[k] = set_friendly_name(@, name),
               !.friendly = net]

\* The friendly names an application sets on node k: none, one of its own,
\* one of the form of the system's names.
NodeNames(fn, k) == {<<>>, <<"out">>, get_name(fn.ops[k])}

\* The friendly names an application sets on the function.
NetNames == {<<>>, <<"net">>}

\* The functions handed to Hash.
HashedFunctions ==
    UNION {{WithFriendlyNames(fn, k, name, net) :
                name \in NodeNames(fn, k), net \in NetNames} :
              fn \in {g \in Functions : /\ g.ops[5].type = "Concat"
                                        /\ Len(g.ops[5].inputs) = 3
                                        /\ g.rt_info = {}},
              k \in {5, 6}}

\* The instance ids another allocation gives the nodes of a graph of n
\* nodes, by place in the ordered ops: built later, or built later and in
\* the opposite order.
Allocations(n) == {[k \in 1..n |-> n + k], [k \in 1..n |-> 2 * n + 1 - k]}

\* The same graph (structure, attributes, constants, friendly names) as
\* another allocation builds it: Node::m_instance_id differs.
Reallocated(fn, ids) ==
    [fn EXCEPT !.ops = [k \in 1..Len(fn.ops) |->
                           [fn.ops[k] EXCEPT !.id = ids[k]]],
               !.id = @ + 1]

InitDeterminism ==
    /\ f \in HashedFunctions
    /\ left = f
    /\ xml_file = NewStream(<<>>)
    /\ bin_file = NewStream(<<>>)
    /\ m_stream = NewStream(<<>>)
    /\ disk = {}
    /\ xml_doc = <<>>
    /\ earlier = <<>>
    /\ outcome = NoRun
    /\ IdleWriter
    /\ IdleOps

\* Hash(output_hash_value).run_on_function on the graph as another
\* allocation built it, after a Hash of f; in is what that run drew (the
\* library's std::sort is the same in both).
HashRebuilt(ids, in) ==
    /\ outcome.pass = "Hash"
    /\ earlier = <<>>
    /\ xml_doc = serializeFunc(NewHashStream, NewHashStream, f, UNSPECIFIED,
                               TRUE, in).saved
    /\ \E g \in {Reallocated(f, ids)} :
       \E r \in {serializeFunc(NewHashStream, NewHashStream, g, UNSPECIFIED,
                              TRUE, in)} :
           /\ earlier' = <<[xml_doc |-> xml_doc, xml_file |-> xml_file,
                            bin_file |-> bin_file, end |-> outcome.end]>>
           /\ f' = g
           /\ left' = r.f
           /\ xml_file' = r.xml_file
           /\ bin_file' = r.bin_file
           /\ xml_doc' = r.saved
           /\ outcome' = [outcome EXCEPT !.end = r.end]
    /\ UNCHANGED <<disk, m_stream, writerVars, opVars>>

NextDeterminism ==
    \E in \in RunInputs(f) :
        \/ Hash(in)
        \/ \E ids \in Allocations(Len(f.ops)) : HashRebuilt(ids, in)

SpecDeterminism == InitDeterminism /\ [][NextDeterminism]_vars

\* ------------------------------------------------------------------------
\* Functions with dynamic shapes
\* ------------------------------------------------------------------------

\* The dimensions a Parameter is declared with: static, bounded by an
\* interval, bounded from below only, fully dynamic.
ParameterDims == {Dimension(3), Interval(1, 10), Interval(2, -1), Dimension(-1)}

\* The shapes of rank 2 of these dimensions.
ParameterShapes == {<<a, b>> : a \in ParameterDims, b \in ParameterDims}

\* Parameter - Relu - Result (or Assign), every output of the shape the
\* parameter is declared with.
ShapedFunction(shape, last) ==
    [ops |-> <<Node("Parameter", 0, <<>>, 1, 0, "ok", 1, <<>>),
               Node("Relu", 0, <<From(1, 0)>>, 1, 0, "ok", 2, <<>>),
               Node(last, 0, <<From(2, 0)>>, 1, 0, "ok", 3, <<>>)>>,
     parameters |-> <<1>>,
     sinks      |-> IF last = "Assign" THEN <<3>> ELSE <<>>,
     results    |-> IF last = "Result" THEN <<3>> ELSE <<>>,
     rt_info    |-> {},
     type       |-> "Function",
     id         |-> 1,
     friendly   |-> <<>>,
     shapes     |-> <<shape, shape, shape>>,
     attributes |-> <<NoPads, NoPads, NoPads>>]

ShapedFunctions ==
    {ShapedFunction(shape, last) :
        shape \in ParameterShapes, last \in {"Result", "Assign"}}

InitShapes ==
    /\ f \in ShapedFunctions
    /\ left = f
    /\ \E c \in InitialContents :
          /\ xml_file = NewStream(c)
          /\ bin_file = NewStream(c)
          /\ m_stream = NewStream(c)
    /\ disk = {}
    /\ xml_doc = <<>>
    /\ earlier = <<>>
    /\ outcome = NoRun
    /\ IdleWriter
    /\ IdleOps

SpecShapes == InitShapes /\ [][NextPasses]_vars

\* ------------------------------------------------------------------------
\* The validations of a Slice node
\* ------------------------------------------------------------------------

\* The lengths of a data axis: static, an interval, without upper bound.
SliceDims ==
    {Dimension(d) : d \in 0..MaxDim}
        \cup {Interval(1, 5), Interval(2, 3), Interval(0, -1), Interval(2, -1)}

\* The values of start and stop: around zero, and the largest int32_t.
SliceIndices == (-MaxIndex..MaxIndex) \cup {INT32_MAX}

SliceSteps == {-2, -1, 0, 1, 2}

\* A Slice of one axis of one-dimensional data, every input constant.
OneAxisSlices ==
    {SliceNode(Tensor("f32", TRUE, <<d>>), IndexInput(TRUE, <<start>>),
               IndexInput(TRUE, <<stop>>), IndexInput(TRUE, <<step>>), axes) :
        <<d, start, stop, step, axes>> \in
            SliceDims \X SliceIndices \X SliceIndices \X SliceSteps
                \X {NoAxes, IndexInput(TRUE, <<0>>), IndexInput(TRUE, <<-1>>)}}

\* The data of the Slices of several axes: of dynamic rank, a scalar, of
\* rank 1 and 2.
SliceData ==
    {Tensor("f32", FALSE, <<>>), Tensor("f32", TRUE, <<>>),
     Tensor("f32", TRUE, <<Dimension(3)>>),
     Tensor("f32", TRUE, <<Dimension(3), Interval(1, 5)>>),
     Tensor("f32", TRUE, <<Interval(0, -1), Dimension(3)>>)}

SliceAxes ==
    {<<0>>, <<1>>, <<-1>>, <<2>>, <<-3>>, <<0, 1>>, <<0, 0>>, <<0, -2>>,
     <<1, -1>>, <<0, 5>>, <<0, 1, 2>>}

\* Slices of one or two axes whose inputs are constant or not; the values
\* of an input that is not constant are those it has when the graph runs.
SeveralAxesSlices ==
    {SliceNode(data, IndexInput(c[1], start), IndexInput(c[2], stop),
               IndexInput(c[3], step), axes) :
        <<data, start, stop, step, axes, c>> \in
            SliceData \X {<<0>>, <<0, 0>>} \X {<<2>>, <<2, 2>>}
                \X {<<1>>, <<0>>, <<1, 1>>, <<1, 0>>}
                \X ({NoAxes} \cup {IndexInput(k, a) :
                                        k \in BOOLEAN, a \in SliceAxes})
                \X (BOOLEAN \X BOOLEAN \X BOOLEAN)}

SliceNodes == OneAxisSlices \cup SeveralAxesSlices

InitSlice ==
    /\ slice \in SliceNodes
    /\ validated = <<>>
    /\ out_of_range \in OutOfRange
    /\ IdleFusion
    /\ IdleLater
    /\ IdleWriter
    /\ IdlePasses

\* The node is validated: its outputs are typed or the validation fails.
Validated(r) ==
    /\ slice' = r.node
    /\ validated' = Append(validated, [end |-> r.end, before |-> slice])
    /\ UNCHANGED out_of_range
    /\ UNCHANGED <<writerVars, passVars, fusionVars, laterVars>>

\* The first validate_and_infer_types() of the node
\* (constructor_validate_and_infer_types)
Validate ==
    /\ validated = <<>>
    /\ \E r \in {validate_and_infer_types(slice)} : Validated(r)

\* validate_and_infer_types() once more, the inputs as they were
\* (revalidate_and_infer_types)
Revalidate ==
    /\ Len(validated) \in 1..(MaxValidations - 1)
    /\ \E r \in {validate_and_infer_types(slice)} : Validated(r)

NextSlice ==
    \/ Validate
    \/ Revalidate

SpecSlice == InitSlice /\ [][NextSlice]_vars

\* ------------------------------------------------------------------------
\* AddFakeQuantizeFusion on a matched Add and FakeQuantize
\* ------------------------------------------------------------------------

\* The shape of the data the Add reads.
DataShape == <<1, 3, 2, 2>>

\* The values a constant of equal elements holds: 5, and in an element
\* type that has them the whole numbers 2^24 + 1 and 2^30 + 65, which no
\* float is.
SingleValues(et) ==
    IF et \in {"f64", "i32", "i64"} THEN {5, 16777217, 1073741889} ELSE {5}

\* The constants of element type et the Add adds: their shape, and
\* elements all the same or all different.
AddConstants(et) ==
    {[shape |-> sh, values |-> [i \in 1..shape_size(sh) |->
                                  IF same THEN v ELSE i]] :
        sh \in {<<>>, <<1>>, <<3, 1, 1>>, <<1, 3, 1, 1>>, <<2, 3>>,
                 <<1, 1, 3>>},
        same \in BOOLEAN, v \in SingleValues(et)}

\* input -> Add(input, constant) -> FakeQuantize(.., low, high, output_low,
\* output_high) -> users
FusionGraph(et, parent, c, low_is_const, users) ==
    [nodes |->
        <<Op(parent, <<>>, et, DataShape, <<>>, <<"data">>, {}),
          Op("Constant", <<>>, et, c.shape, c.values, <<"bias">>, {}),
          Op("Add", <<1, 2>>, et, DataShape, <<>>, <<"add">>, {"add_info"}),
          IF low_is_const
          THEN Op("Constant", <<>>, et, <<>>, <<0>>, <<"low">>, {})
          ELSE Op("Parameter", <<>>, et, <<>>, <<>>, <<"low">>, {}),
          Op("Constant", <<>>, et, <<>>, <<10>>, <<"high">>, {}),
          Op("Constant", <<>>, et, <<>>, <<0>>, <<"output_low">>, {}),
          Op("Constant", <<>>, et, <<>>, <<1>>, <<"output_high">>, {}),
          Op("FakeQuantize", <<3, 4, 5, 6, 7>>, et, DataShape, <<256>>,
             <<"fq">>, {"fq_info"})>>
        \o [k \in 1..Len(users) |->
                Op(users[k], IF users[k] = "Concat" THEN <<1, 8>> ELSE <<8>>,
                   et, DataShape, <<>>, <<>>, {})],
     m_new_nodes |-> <<>>]

\* The element types of the data: below 32 bits, of 32 bits, above.
FusionTypes == {"u8", "f16", "f32", "i32", "f64", "i64"}

FusionGraphs ==
    UNION {{FusionGraph(et, parent, c, low_is_const, users) :
               parent \in {"Parameter", "Convolution", "MatMul"},
               c \in AddConstants(et), low_is_const \in BOOLEAN,
               users \in {<<>>, <<"Result">>, <<"Concat">>,
                          <<"Result", "Concat">>}} :
              et \in FusionTypes}

\* The matcher has bound the pattern to the graph: input, constant, Add
\* and FakeQuantize.
InitFusion ==
    /\ graph \in FusionGraphs
    /\ matcher = [map |-> [input |-> 1, const |-> 2, add |-> 3, fq |-> 8],
                  returned |-> <<>>, before |-> graph]
    /\ IdleSlice
    /\ IdleLater
    /\ IdleWriter
    /\ IdlePasses

\* The matcher calls the callback on the match.
Callback ==
    /\ matcher.returned = <<>>
    /\ \E r \in {callback(graph, matcher.map)} :
          /\ graph' = r.graph
          /\ matcher' = [matcher EXCEPT !.returned = <<r.returned>>]
    /\ UNCHANGED <<writerVars, passVars, sliceVars, laterVars>>

NextFusion == Callback

SpecFusion == InitFusion /\ [][NextFusion]_vars

\* ------------------------------------------------------------------------
\* Node constructions on several threads
\* ------------------------------------------------------------------------

InitCtor == IdleCtor /\ IdleBesideCtor

\* Thread t enters a constructor of Node.
Begin(t) ==
    /\ threads[t].pc = "idle"
    /\ now < 2 * MaxNodes
    /\ Len(built) + Cardinality({u \in 1..NumThreads :
                                    threads[u].pc # "idle"}) < MaxNodes
    /\ threads' = [threads EXCEPT ![t] = [pc |-> "begun", started |-> now + 1,
                                          m_instance_id |-> 0]]
    /\ now' = now + 1
    /\ UNCHANGED <<m_next_instance_id, built, besideCtor>>

\* m_instance_id{m_next_instance_id.fetch_add(1)}
Number(t) ==
    /\ threads[t].pc = "begun"
    /\ \E r \in {fetch_add(m_next_instance_id, 1)} :
          /\ threads' = [threads EXCEPT ![t].pc = "numbered",
                                        ![t].m_instance_id = r.value]
          /\ m_next_instance_id' = r.stored
    /\ UNCHANGED <<built, now, besideCtor>>

\* The constructor of thread t returns.
Finish(t) ==
    /\ threads[t].pc = "numbered"
    /\ built' = Append(built, [m_instance_id |-> threads[t].m_instance_id,
                               started |-> threads[t].started,
                               finished |-> now + 1])
    /\ threads' = [threads EXCEPT ![t] = NoConstruction]
    /\ now' = now + 1
    /\ UNCHANGED <<m_next_instance_id, besideCtor>>

NextCtor ==
    \E t \in 1..NumThreads :
        \/ Begin(t)
        \/ Number(t)
        \/ Finish(t)

SpecCtor == InitCtor /\ [][NextCtor]_vars

\* ------------------------------------------------------------------------
\* Reverse: construction of the node and inference, once and again
\* ------------------------------------------------------------------------

\* The sequences over S of a length in lens.
SeqsOf(S, lens) == UNION {[1..n -> S] : n \in lens}

\* The shapes of rank 1 to 3 with dimensions up to MaxReverseDim.
ReverseShapes == SeqsOf(1..MaxReverseDim, 1..3)

\* The test cases: those of generateParams, those expected to throw, and
\* on every small shape every list of axes (in range or not, repeated or
\* not, 1-D or not, a Constant or a Parameter fed with axes of the data)
\* and every mask (of the rank or not).
ReverseCases ==
    generateParams \cup ExpectThrow
      \cup {c \in {ReverseParams(
                       TestTensor("i64", <<Len(values)>>, values, FALSE),
                       "INDEX",
                       TestTensor("T", shape, Iota(shape_size(shape)), FALSE),
                       <<>>) :
                     values \in SeqsOf(0..2, 0..4), shape \in ReverseShapes} :
               \A k \in 1..Len(c.axes.values) :
                   c.axes.values[k] < Len(c.data.shape)}
      \cup {ReverseParams(TestTensor("i64", <<Len(values)>>, values, TRUE),
                          "INDEX",
                          TestTensor("T", shape, Iota(shape_size(shape)), FALSE),
                          <<>>) :
              values \in SeqsOf(0..3, 0..4), shape \in ReverseShapes}
      \cup {ReverseParams(TestTensor("i64", <<1, Len(values)>>, values, c),
                          "INDEX",
                          TestTensor("T", shape, Iota(shape_size(shape)), FALSE),
                          <<>>) :
              values \in SeqsOf(0..1, 1..2), shape \in ReverseShapes,
              c \in BOOLEAN}
      \cup {ReverseParams(TestTensor("boolean", <<Len(values)>>, values, c),
                          "MASK",
                          TestTensor("T", shape, Iota(shape_size(shape)), FALSE),
                          <<>>) :
              values \in SeqsOf(0..1, 1..4), shape \in ReverseShapes,
              c \in BOOLEAN}

InitReverse ==
    /\ test \in ReverseCases
    /\ made = <<>>
    /\ outputs = <<>>
    /\ IdleBesideReverse

\* CreateFunction: make_shared<op::v1::Reverse>(data, axes, mode), which
\* validates the node; the function is made of it unless that throws.
CreateFunction ==
    /\ made = <<>>
    /\ made' = <<Reverse_validate(test.data, test.axes, test.mode)>>
    /\ UNCHANGED <<test, outputs, besideReverse>>

\* Exec: the function is inferred on the data.
Exec ==
    /\ made = <<Ok>>
    /\ outputs = <<>>
    /\ outputs' = <<reverse(test.data.values, test.data.shape,
                            reversed_axes(test.mode, test.axes))>>
    /\ UNCHANGED <<test, made, besideReverse>>

\* The function is inferred on its own output.
ExecAgain ==
    /\ Len(outputs) = 1
    /\ outputs' = Append(outputs,
                         reverse(outputs[1], test.data.shape,
                                 reversed_axes(test.mode, test.axes)))
    /\ UNCHANGED <<test, made, besideReverse>>

NextReverse ==
    \/ CreateFunction
    \/ Exec
    \/ ExecAgain

SpecReverse == InitReverse /\ [][NextReverse]_vars

\* ------------------------------------------------------------------------
\* Functions with padding attributes, dynamic shapes and failing visitors
\* ------------------------------------------------------------------------

\* The padding attributes of a validated Convolution or MaxPool of two
\* spatial axes: explicit pads, the pads inferred for SAME_UPPER and
\* SAME_LOWER, none for VALID.
PaddingAttributes ==
    {Pads("EXPLICIT", b, e) : b \in {<<0, 0>>, <<1, 1>>},
                              e \in {<<0, 0>>, <<1, 2>>}}
      \cup {Pads("SAME_UPPER", <<0, 0>>, <<0, 0>>),
            Pads("SAME_UPPER", <<1, 1>>, <<1, 1>>),
            Pads("SAME_UPPER", <<0, 1>>, <<1, 2>>),
            Pads("SAME_LOWER", <<1, 2>>, <<0, 1>>),
            Pads("VALID", <<0, 0>>, <<0, 0>>)}

\* Parameter - node - Result, every output of the shape the parameter is
\* declared with; the node has the padding attributes and visit_attributes
\* does on it what visits says.
FramedFunction(shape, type, visits, attributes) ==
    [ops |-> <<Node("Parameter", 0, <<>>, 1, 0, "ok", 1, <<>>),
               Node(type, 0, <<From(1, 0)>>, 1, 0, visits, 2, <<>>),
               Node("Result", 0, <<From(2, 0)>>, 1, 0, "ok", 3, <<>>)>>,
     parameters |-> <<1>>,
     sinks      |-> <<>>,
     results    |-> <<3>>,
     rt_info    |-> {},
     type       |-> "Function",
     id         |-> 1,
     friendly   |-> <<>>,
     shapes     |-> <<shape, shape, shape>>,
     attributes |-> <<NoPads, attributes, NoPads>>]

\* Nodes with padding attributes on static shapes, and nodes without on
\* every shape, with a visitor that works or fails.
FramedFunctions ==
    {FramedFunction(<<Dimension(3), Dimension(3)>>, type, "ok", attributes) :
        type \in {"Convolution", "MaxPool"}, attributes \in PaddingAttributes}
      \cup {FramedFunction(shape, "Relu", "ok", NoPads) :
              shape \in ParameterShapes}
      \cup {FramedFunction(shape, "Custom", visits, NoPads) :
              shape \in ParameterShapes,
              visits \in {"unsupported", "no_visitor"}}

InitFrame ==
    /\ f \in FramedFunctions
    /\ left = f
    /\ \E c \in InitialContents :
          /\ xml_file = NewStream(c)
          /\ bin_file = NewStream(c)
          /\ m_stream = NewStream(c)
    /\ disk = {}
    /\ xml_doc = <<>>
    /\ earlier = <<>>
    /\ outcome = NoRun
    /\ IdleWriter
    /\ IdleOps

SpecFrame == InitFrame /\ [][NextPasses]_vars

\* ------------------------------------------------------------------------
\* Functions under every assignment of friendly names
\* ------------------------------------------------------------------------

\* The friendly names an application sets on a node: none, a name, the
\* name with a digit behind it, the name the system gives another node.
FriendlyNames ==
    {<<>>, <<"x">>, <<"x", "0">>, <<"x", "1">>, <<"Relu", "_", "3">>}

\* Parameter - Relu - Relu - Result with the friendly names given.
NamedFunction(names) ==
    [ops |-> <<Node("Parameter", 0, <<>>, 1, 0, "ok", 1, names[1]),
               Node("Relu", 0, <<From(1, 0)>>, 1, 0, "ok", 2, names[2]),
               Node("Relu", 0, <<From(2, 0)>>, 1, 0, "ok", 3, names[3]),
               Node("Result", 0, <<From(3, 0)>>, 1, 0, "ok", 4, names[4])>>,
     parameters |-> <<1>>,
     sinks      |-> <<>>,
     results    |-> <<4>>,
     rt_info    |-> {},
     type       |-> "Function",
     id         |-> 1,
     friendly   |-> <<>>,
     shapes     |-> [k \in 1..4 |-> <<Dimension(2)>>],
     attributes |-> [k \in 1..4 |-> NoPads]]

NamedFunctions ==
    {NamedFunction(<<a, b, c, d>>) :
        a \in FriendlyNames, b \in FriendlyNames, c \in FriendlyNames,
        d \in {<<>>, <<"x">>}}

InitNames ==
    /\ f \in NamedFunctions
    /\ left = f
    /\ xml_file = NewStream(<<>>)
    /\ bin_file = NewStream(<<>>)
    /\ m_stream = NewStream(<<>>)
    /\ disk = {}
    /\ xml_doc = <<>>
    /\ earlier = <<>>
    /\ outcome = NoRun
    /\ IdleWriter
    /\ IdleOps

SpecNames == InitNames /\ [][NextPasses]_vars

\* ------------------------------------------------------------------------
\* An ONNXModelEditor under any sequence of operations
\* ------------------------------------------------------------------------

\* The models loaded: A -n0-> B, (B, W) -n1-> C with the initializer W; the
\* same with both nodes of one name and a value_info for B.
EditedModels ==
    {GraphProto(<<ValueInfo("A", "f32", TRUE, <<Dim(3, "")>>)>>,
                <<ValueInfo("C", "f32", TRUE, <<>>)>>, <<"W">>,
                <<>>,
                <<NodeProto("n0", <<"A">>, <<"B">>),
                  NodeProto("n1", <<"B", "W">>, <<"C">>)>>),
     GraphProto(<<ValueInfo("A", "f32", TRUE, <<Dim(3, "")>>)>>,
                <<ValueInfo("C", "f32", TRUE, <<>>)>>, <<"W">>,
                <<ValueInfo("B", "f32", TRUE, <<>>)>>,
                <<NodeProto("n0", <<"A">>, <<"B">>),
                  NodeProto("n0", <<"B", "W">>, <<"C">>)>>)}

\* The names the operations are called with.
TensorNames == {"A", "B", "C", "W", "X"}
EditorNodeNames == {"n0", "n1", "m"}

\* ONNXModelEditor(model_path)
InitEditor ==
    /\ \E onnx_graph \in EditedModels : m_pimpl = Impl(onnx_graph)
    /\ consulted = <<>>
    /\ edits = 0
    /\ IdleBesideEditor

\* The edge mapper is used by an operation: what it holds and what the
\* model is at that time.
Consult(by, impl) ==
    Append(consulted,
           [by |-> by, m_edge_mapper |-> impl.m_edge_mapper,
            model |-> impl.m_model_proto,
            m_is_mapper_updated |-> impl.m_is_mapper_updated])

\* A query (find_input_edge, find_output_edge, get_node_index,
\* is_correct_tensor_name, get_input_ports, ...): update_mapper_if_needed,
\* then the mapper is asked.
Query ==
    /\ edits < MaxEdits
    /\ m_pimpl' = update_mapper_if_needed(m_pimpl)
    /\ consulted' = Consult("query", update_mapper_if_needed(m_pimpl))
    /\ edits' = edits + 1
    /\ UNCHANGED besideEditor

\* cut_graph_fragment(inputs, outputs): nothing with no edges (keep = 0),
\* else the shapes are inferred, the subgraph up to the node at place keep
\* is extracted, and the value_info is cleared on return.  When the
\* inference throws, the exception leaves the call and nothing has
\* changed.
CutGraphFragment(keep, throws) ==
    /\ edits < MaxEdits
    /\ keep <= Len(m_pimpl.m_model_proto.node)
    /\ keep = 0 => ~throws
    /\ m_pimpl' = IF keep = 0 \/ throws THEN m_pimpl
                  ELSE [m_pimpl EXCEPT
                          !.m_model_proto =
                              clear_value_info(extract_subgraph(@, keep)),
                          !.m_is_mapper_updated = FALSE]
    /\ edits' = edits + 1
    /\ UNCHANGED <<consulted, besideEditor>>

\* set_tensor_name(current_name, new_name)
SetTensorName(current_name, new_name) ==
    /\ edits < MaxEdits
    /\ edits' = edits + 1
    /\ LET onnx_graph == m_pimpl.m_model_proto
       IN  IF new_name = "" \/ in_graph_arrays(onnx_graph, new_name)
           THEN UNCHANGED <<m_pimpl, consulted>>
           ELSE /\ consulted' = Consult("set_tensor_name", m_pimpl)
                /\ m_pimpl' =
                     IF is_correct_tensor_name(m_pimpl.m_edge_mapper, new_name)
                     THEN m_pimpl
                     ELSE [m_pimpl EXCEPT
                             !.m_is_mapper_updated = FALSE,
                             !.m_model_proto =
                                with_tensor_renamed(onnx_graph, current_name,
                                                    new_name)]
    /\ UNCHANGED besideEditor

\* set_node_name(node, new_name) for the node of a name.  The index comes
\* from the mapper as it is; mutable_node of an index the graph does not
\* have is undefined: the call writes outside the graph or ends the
\* program.
SetNodeName(node_name, new_name, crashes) ==
    /\ edits < MaxEdits
    /\ consulted' = Consult("set_node_name", m_pimpl)
    /\ LET node_idx == get_node_index(m_pimpl.m_edge_mapper, node_name)
           onnx_graph == m_pimpl.m_model_proto
       IN  IF node_idx = -1
           THEN /\ ~crashes
                /\ UNCHANGED m_pimpl
                /\ edits' = edits + 1
           ELSE IF node_idx >= Len(onnx_graph.node)
           THEN /\ m_pimpl' = [m_pimpl EXCEPT !.m_is_mapper_updated = FALSE]
                /\ edits' = IF crashes THEN MaxEdits ELSE edits + 1
           ELSE /\ ~crashes
                /\ m_pimpl' = [m_pimpl EXCEPT
                                 !.m_is_mapper_updated = FALSE,
                                 !.m_model_proto.node[node_idx + 1].name =
                                     new_name]
                /\ edits' = edits + 1
    /\ UNCHANGED besideEditor

\* clear_nodes_name(name)
ClearNodesName(name) ==
    /\ edits < MaxEdits
    /\ m_pimpl' = [m_pimpl EXCEPT
                     !.m_is_mapper_updated = FALSE,
                     !.m_model_proto.node =
                        [i \in 1..Len(@) |->
                            IF @[i].name # "" /\ @[i].name = name
                            THEN [@[i] EXCEPT !.name = ""] ELSE @[i]]]
    /\ edits' = edits + 1
    /\ UNCHANGED <<consulted, besideEditor>>

\* set_name_for_dimension(node_name, shape_dim_index, dim_name)
SetNameForDimension(node_name, shape_dim_index, dim_name) ==
    /\ edits < MaxEdits
    /\ edits' = edits + 1
    /\ LET onnx_graph == m_pimpl.m_model_proto
       IN  IF \/ dim_name = ""
              \/ find_graph_initializer(onnx_graph, node_name)
              \/ /\ find_value_info(onnx_graph.input, node_name) = {}
                 /\ find_value_info(onnx_graph.output, node_name) = {}
                 /\ find_value_info(onnx_graph.value_info, node_name) = {}
           THEN UNCHANGED m_pimpl
           ELSE m_pimpl' = [m_pimpl EXCEPT
                  !.m_is_mapper_updated = FALSE,
                  !.m_model_proto.input =
                      with_dim_param(@, node_name, shape_dim_index, dim_name),
                  !.m_model_proto.output =
                      with_dim_param(@, node_name, shape_dim_index, dim_name),
                  !.m_model_proto.value_info =
                      with_dim_param(@, node_name, shape_dim_index, dim_name)]
    /\ UNCHANGED <<consulted, besideEditor>>

\* get_tensor_shape(tensor_name): for a name in none of the arrays the
\* shapes are inferred, and the value_info is cleared on return unless
\* the inference has thrown.
GetTensorShape(tensor_name, throws) ==
    /\ edits < MaxEdits
    /\ edits' = edits + 1
    /\ IF in_graph_arrays(m_pimpl.m_model_proto, tensor_name)
       THEN ~throws /\ UNCHANGED m_pimpl
       ELSE m_pimpl' = [m_pimpl EXCEPT
                          !.m_model_proto =
                              IF throws THEN @ ELSE clear_value_info(@)]
    /\ UNCHANGED <<consulted, besideEditor>>

\* set_input_types of one input: an exception when the graph has no such
\* input or the type is not allowed.
SetInputTypes(name, elem_type) ==
    /\ edits < MaxEdits
    /\ edits' = edits + 1
    /\ LET at == first_input(m_pimpl.m_model_proto, name)
       IN  IF at = 0 \/ modify_input_type(m_pimpl.m_model_proto.input[at],
                                          elem_type) = <<>>
           THEN UNCHANGED m_pimpl
           ELSE m_pimpl' = [m_pimpl EXCEPT
                  !.m_model_proto.input[at] =
                      modify_input_type(@, elem_type)[1]]
    /\ UNCHANGED <<consulted, besideEditor>>

\* set_input_shapes of one input: an exception when the graph has no such
\* input.
SetInputShapes(name, new_shape) ==
    /\ edits < MaxEdits
    /\ edits' = edits + 1
    /\ LET at == first_input(m_pimpl.m_model_proto, name)
       IN  IF at = 0 THEN UNCHANGED m_pimpl
           ELSE m_pimpl' = [m_pimpl EXCEPT
                  !.m_model_proto.input[at] =
                      modify_input_shape(@, new_shape)]
    /\ UNCHANGED <<consulted, besideEditor>>

\* set_input_values of one input
SetInputValues(name, elem_type, dims) ==
    /\ edits < MaxEdits
    /\ edits' = edits + 1
    /\ m_pimpl' = [m_pimpl EXCEPT
                     !.m_model_proto =
                         with_input_values(@, name, elem_type, dims)]
    /\ UNCHANGED <<consulted, besideEditor>>

\* The names set_input_types, set_input_shapes and set_input_values are
\* called with (an input, an initializer, neither), the element types and
\* the shapes.
InputNames == {"A", "W", "X"}
ElementTypes == {"i64", "u1"}
InputShapes ==
    {PartialShape(FALSE, <<>>), PartialShape(TRUE, <<2>>),
     PartialShape(TRUE, <<-1>>)}

NextEditor ==
    \/ Query
    \/ \E tensor_name \in TensorNames, throws \in BOOLEAN :
          GetTensorShape(tensor_name, throws)
    \/ \E name \in InputNames, elem_type \in ElementTypes :
          SetInputTypes(name, elem_type)
    \/ \E name \in InputNames, new_shape \in InputShapes :
          SetInputShapes(name, new_shape)
    \/ \E name \in InputNames, elem_type \in ElementTypes :
          SetInputValues(name, elem_type, <<2>>)
    \/ \E keep \in 0..2, throws \in BOOLEAN : CutGraphFragment(keep, throws)
    \/ \E current_name \in TensorNames, new_name \in TensorNames \cup {""} :
          SetTensorName(current_name, new_name)
    \/ \E node_name \in EditorNodeNames, new_name \in EditorNodeNames, crashes \in BOOLEAN :
          SetNodeName(node_name, new_name, crashes)
    \/ \E name \in EditorNodeNames : ClearNodesName(name)
    \/ \E node_name \in TensorNames, shape_dim_index \in 0..1,
          dim_name \in {"", "batch"} :
          SetNameForDimension(node_name, shape_dim_index, dim_name)

SpecEditor == InitEditor /\ [][NextEditor]_vars

\* ------------------------------------------------------------------------
\* Two hash streams that take the same bytes in write calls of any lengths
\* ------------------------------------------------------------------------

\* The bytes written: nine bytes, so that a call may hold a whole size_t.
Texts == {<<1, 2, 3, 4, 5, 6, 7, 8, 9>>, <<60, 110, 101, 116, 62, 0, 200, 255, 10>>}

InitHash ==
    /\ text \in Texts
    /\ xmlHash = [m_res |-> ZeroWord, taken |-> 0, calls |-> 0]
    /\ otherHash = [m_res |-> ZeroWord, taken |-> 0, calls |-> 0]
    /\ IdleBesideHash

\* The wrapper after a write call with the next n bytes of the text.
Taken(wrapper, n) ==
    [m_res |-> xsputn(wrapper.m_res,
                      SubSeq(text, wrapper.taken + 1, wrapper.taken + n)),
     taken |-> wrapper.taken + n,
     calls |-> wrapper.calls + 1]

\* xml.write(s, n) on the stream of the first run
WriteXml(n) ==
    /\ xmlHash.calls < MaxChunks
    /\ xmlHash.taken + n <= Len(text)
    /\ xmlHash' = Taken(xmlHash, n)
    /\ UNCHANGED <<text, otherHash, besideHash>>

\* xml.write(s, n) on the stream of the other run
WriteOther(n) ==
    /\ otherHash.calls < MaxChunks
    /\ otherHash.taken + n <= Len(text)
    /\ otherHash' = Taken(otherHash, n)
    /\ UNCHANGED <<text, xmlHash, besideHash>>

NextHash ==
    \E n \in 1..9 :
        \/ WriteXml(n)
        \/ WriteOther(n)

SpecHash == InitHash /\ [][NextHash]_vars

\* ------------------------------------------------------------------------
\* skipped_branch_memory_dependencies::run on a program
\* ------------------------------------------------------------------------

\* The processing orders of the nodes 1..n: the order of the ids, that
\* order started at its second place, and the reverse of the ids.  (With
\* the users chosen freely every other order is one of these under
\* another numbering of the nodes.)
ProcessingOrders(n) ==
    {[i \in 1..n |-> ((i + k - 1) % n) + 1] : k \in 0..1} \cup
    {[i \in 1..n |-> n + 1 - i]}

RECURSIVE UsesOf(_, _)
\* The sets of up to k of the pairs.
UsesOf(pairs, k) ==
    IF k = 0 THEN {{}}
    ELSE LET More(fewer) ==
                 fewer \cup {uses \cup {pair} : uses \in fewer, pair \in pairs}
         IN  With(UsesOf(pairs, k - 1), More)

\* The choices of users among n nodes: up to MaxUses pairs of a node and
\* another node that uses it, wherever the processing order has the two.
UsersIn(n) ==
    {[b \in 1..n |-> {usr \in 1..n : <<b, usr>> \in uses}] :
        uses \in UsesOf({pair \in (1..n) \X (1..n) : pair[1] # pair[2]},
                        MaxUses)}

\* The programs: every processing order of up to MaxProgramNodes nodes and
\* every choice of users.
Programs ==
    UNION {{[processing_order |-> order, users |-> users] :
               users \in UsersIn(Len(order))} :
              order \in UNION {ProcessingOrders(n) :
                                  n \in 1..MaxProgramNodes}}

InitSkip ==
    /\ program \in Programs
    /\ itrB = 0
    /\ memory_dependencies = {}
    /\ IdleBesideSkip

\* run(p): itrB = processing_order.begin()
Run ==
    /\ itrB = 0
    /\ itrB' = 1
    /\ UNCHANGED <<program, memory_dependencies, besideSkip>>

\* One turn of the loop over B, for a node without users: continue.
SkipB ==
    /\ itrB \in 1..Len(program.processing_order)
    /\ program.users[program.processing_order[itrB]] = {}
    /\ itrB' = itrB + 1
    /\ UNCHANGED <<program, memory_dependencies, besideSkip>>

\* One turn of the loop over B, for a node with users: the nodes between B
\* and its last user are marked.
MarkB ==
    /\ itrB \in 1..Len(program.processing_order)
    /\ program.users[program.processing_order[itrB]] # {}
    /\ LET nodeB == program.processing_order[itrB]
           lastUsr == last_user(program.processing_order, program.users[nodeB])
       IN  memory_dependencies' =
               mark_between(memory_dependencies, program.processing_order,
                            itrB + 1, lastUsr, nodeB)
    /\ itrB' = itrB + 1
    /\ UNCHANGED <<program, besideSkip>>

NextSkip ==
    \/ Run
    \/ SkipB
    \/ MarkB

\* The pass runs to its end once it is called.
SpecSkip == InitSkip /\ [][NextSkip]_vars /\ WF_vars(NextSkip)

\* ------------------------------------------------------------------------
\* Properties of the constant writer
\* ------------------------------------------------------------------------

\* The bytes of the binary stream at a returned offset, size of them.
BytesAt(w, offset, size) ==
    SubSeq(w.m_binary_output.buf,
           w.m_blob_offset + offset + 1, w.m_blob_offset + offset + size)

SameWeakHash(p, q) ==
    hash_of(p, Len(Mem[p])) = hash_of(q, Len(Mem[q]))

\* Two buffers of one size and one weak hash that differ in a byte.
Colliding(p, q) ==
    /\ Len(Mem[p]) = Len(Mem[q])
    /\ Mem[p] # Mem[q]
    /\ SameWeakHash(p, q)

\* C1: with compression enabled, any two write calls whose payloads are
\* byte-identical return the same offset and the later one appends nothing
\* to the binary stream, whatever was written before them.
C1_IdenticalPayloadsOneOffset ==
    writer.m_enable_compression =>
        \A i, j \in 1..Len(calls) :
            (i < j /\ Mem[calls[i].ptr] = Mem[calls[j].ptr]) =>
                /\ calls[j].offset = calls[i].offset
                /\ calls[j].appended = 0

\* C2: with compression enabled, two payloads of the same size and the same
\* weak hash that differ in a byte get two distinct offsets, and the bytes
\* of each are in the binary stream at its offset: a hash match alone never
\* makes the writer reuse an offset.
C2_CollisionsGetDistinctOffsets ==
    writer.m_enable_compression =>
        \A i, j \in 1..Len(calls) :
            Colliding(calls[i].ptr, calls[j].ptr) =>
                /\ calls[i].offset # calls[j].offset
                /\ BytesAt(writer, calls[i].offset, Len(Mem[calls[i].ptr]))
                     = Mem[calls[i].ptr]
                /\ BytesAt(writer, calls[j].offset, Len(Mem[calls[j].ptr]))
                     = Mem[calls[j].ptr]

\* C2's case: both payloads of a colliding pair were written with
\* compression enabled.
C2_Witness ==
    /\ writer.m_enable_compression
    /\ \E i, j \in 1..Len(calls) : Colliding(calls[i].ptr, calls[j].ptr)

\* ------------------------------------------------------------------------
\* Properties of the passes
\* ------------------------------------------------------------------------

Ran(pass) == outcome.pass = pass
Completed == outcome.pass # "none" /\ outcome.end.status = "ok"
Failed == outcome.pass # "none" /\ outcome.end.status # "ok"

\* The function carries a "version" hint other than v.
HintDiffers(v) ==
    rt_info_count(f, "version") > 0 /\ rt_info_at(f, "version") # v

\* C3: when Serialize with paths fails, whatever the failure, neither the
\* xml file nor the bin file is left on disk.
C3_FailureLeavesNoFile ==
    (Ran("SerializePaths") /\ Failed) => disk = {}

\* C4: when IR_V10 or IR_V11 is requested and the function's rt_info holds
\* a different "version", Serialize on streams and StreamSerialize throw
\* and no operation was made on any output stream: no header, no constant,
\* no xml.
C4_MismatchThrowsBeforeAnyByte ==
    ( /\ Ran("Serialize") \/ Ran("StreamSerialize")
      /\ outcome.version \in {IR_V10, IR_V11}
      /\ HintDiffers(outcome.version) )
    =>  /\ outcome.end = Thrown("ngraph_error",
                 "Cannot serialize function to incompatible IR version")
        /\ xml_file.log = <<>>
        /\ bin_file.log = <<>>
        /\ m_stream.log = <<>>
        /\ xml_doc = <<>>

\* C4's case: StreamSerialize ran with an explicit version on a function
\* whose hint names another one.
C4_Witness ==
    /\ Ran("StreamSerialize")
    /\ outcome.version = IR_V10
    /\ HintDiffers(IR_V10)
    /\ Failed

\* C5: every pass that completes wrote version 10 or 11, and 11 when
\* nothing but UNSPECIFIED was asked for; any other effective version,
\* also one that only the rt_info hint brings, ends in an error.
C5_OnlyVersions10And11 ==
    Completed =>
        /\ xml_doc # <<>>
        /\ xml_doc[1].version \in {IR_V10, IR_V11}
        /\ (outcome.version = UNSPECIFIED /\ ~HintDiffers(UNSPECIFIED))
               => xml_doc[1].version = IR_V11

\* The number a size_t of the stream stands for (the numbers of the model
\* stay below 2^31).
WordToNat(w) == w[1] + 256 * w[2] + 65536 * w[3] + 16777216 * w[4]

\* The k-th field (from 0) of the DataHeader stored at position at.
HeaderField(buf, at, k) ==
    WordToNat(SubSeq(buf, at + cel_size * k + 1, at + cel_size * (k + 1)))

\* The DataHeader stored in the stream at position at.
ReadHeader(buf, at) ==
    [custom_data_offset |-> HeaderField(buf, at, 0),
     custom_data_size   |-> HeaderField(buf, at, 1),
     consts_offset      |-> HeaderField(buf, at, 2),
     consts_size        |-> HeaderField(buf, at, 3),
     model_offset       |-> HeaderField(buf, at, 4),
     model_size         |-> HeaderField(buf, at, 5)]

RECURSIVE TotalLen(_)
TotalLen(chunks) ==
    IF chunks = <<>> THEN 0 ELSE Len(Head(chunks)) + TotalLen(Tail(chunks))

\* C7: after StreamSerialize completes, the header stored where the stream
\* stood on entry describes contiguous sections in the order header,
\* custom data, constants, model: the custom data starts right after the
\* header and has the length the serializer wrote, each section starts
\* where the one before it ends, and the model ends at the end of the
\* stream.
C7_HeaderDescribesSections ==
    (Ran("StreamSerialize") /\ Completed) =>
        LET h == ReadHeader(m_stream.buf, outcome.entry)
        IN  /\ h.custom_data_offset = outcome.entry + HeaderSize
            /\ h.custom_data_size = TotalLen(outcome.custom)
            /\ h.consts_offset = h.custom_data_offset + h.custom_data_size
            /\ h.model_offset = h.consts_offset + h.consts_size
            /\ h.model_size > 0
            /\ h.model_offset + h.model_size = Len(m_stream.buf)

\* C7's case: StreamSerialize completed on a stream that held bytes on
\* entry, with custom data and with constants written.
C7_Witness ==
    /\ Ran("StreamSerialize") /\ Completed
    /\ outcome.entry > 0
    /\ outcome.custom # <<>>
    /\ ReadHeader(m_stream.buf, outcome.entry).consts_size > 0

\* The buffers of the Constant nodes of f.
ConstantValues == {f.ops[k].value : k \in {x \in 1..Len(f.ops) :
                                              f.ops[x].type = "Constant"}}

\* C8: StreamSerialize writes an all-zero header, then the custom data,
\* then constant payloads, then the xml text, each write at the end of the
\* one before; only then it seeks back to the header position, writes the
\* final header there, and seeks to the end of the written data.
C8_StreamedThenHeaderRewritten ==
    (Ran("StreamSerialize") /\ Completed) =>
        LET L  == m_stream.log
            n  == Len(L)
            nc == Len(outcome.custom)
        IN  /\ n >= nc + 5
            /\ L[1] = [op |-> "write", at |-> outcome.entry,
                       bytes |-> [i \in 1..HeaderSize |-> 0]]
            /\ \A k \in 1..nc :
                  L[1 + k].op = "write" /\ L[1 + k].bytes = outcome.custom[k]
            /\ \A k \in (nc + 2)..(n - 4) :
                  /\ L[k].op = "write"
                  /\ \E p \in ConstantValues : L[k].bytes = Mem[p]
            /\ L[n - 3].op = "write"
            /\ L[n - 3].bytes = XmlText(Len(L[n - 3].bytes))
            /\ Len(L[n - 3].bytes) > 0
            /\ \A k \in 2..(n - 3) : L[k].at = L[k - 1].at + Len(L[k - 1].bytes)
            /\ L[n - 2] = [op |-> "seekp", at |-> outcome.entry, bytes |-> <<>>]
            /\ L[n - 1].op = "write"
            /\ L[n - 1].at = outcome.entry
            /\ L[n - 1].bytes = SubSeq(m_stream.buf, outcome.entry + 1,
                                       outcome.entry + HeaderSize)
            /\ L[n - 1].bytes # L[1].bytes
            /\ L[n] = [op |-> "seekp", at |-> Len(m_stream.buf), bytes |-> <<>>]
            /\ tellp(m_stream) = Len(m_stream.buf)

\* C8's case: StreamSerialize completed with custom data and wrote two
\* constant payloads.
C8_Witness ==
    /\ Ran("StreamSerialize") /\ Completed
    /\ outcome.custom # <<>>
    /\ Len(m_stream.log) = Len(outcome.custom) + 7

\* The place of x in a sequence without repetition.
PlaceIn(seq, x) == CHOOSE i \in 1..Len(seq) : seq[i] = x

\* Parameters, interior nodes, sinks, results.
GroupOf(n) ==
    IF is_parameter(n) THEN 0
    ELSE IF is_sink(n) THEN 2
    ELSE IF is_output(n) THEN 3
    ELSE 1

\* Layer a is written before layer b in the order of version 11 (a and b
\* are places in the ordered ops).
Version11Before(a, b) ==
    LET ga == GroupOf(f.ops[a])
        gb == GroupOf(f.ops[b])
    IN  \/ ga < gb
        \/ /\ ga = gb
           /\ CASE ga = 0 -> PlaceIn(f.parameters, a) < PlaceIn(f.parameters, b)
                [] ga = 1 -> a < b
                [] ga = 2 -> PlaceIn(f.sinks, a) < PlaceIn(f.sinks, b)
                [] ga = 3 -> PlaceIn(f.results, a) < PlaceIn(f.results, b)

\* C9: in a document of version 11 the layers are the parameters in the
\* function's parameter order, then the nodes that are neither parameter,
\* result nor sink in topological order, then the sinks, then the results;
\* in a document of version 10 they are in topological order.  In both,
\* every node of the function is one layer, and the layer's id is the
\* node's index in the topological order.
C9_LayerOrder ==
    (Completed /\ xml_doc[1].version \in {IR_V10, IR_V11}) =>
        LET layers == xml_doc[1].layers
            N      == Len(f.ops)
        IN  /\ Len(layers) = N
            /\ \A i \in 1..N :
                  /\ layers[i].id \in 0..(N - 1)
                  /\ layers[i].type
                        = translate_type_name(f.ops[layers[i].id + 1].type)
                  /\ Len(layers[i].input) <= Len(f.ops[layers[i].id + 1].inputs)
            /\ \A i, j \in 1..N : i # j => layers[i].id # layers[j].id
            /\ xml_doc[1].version = IR_V10 =>
                  \A i \in 1..N : layers[i].id = i - 1
            /\ xml_doc[1].version = IR_V11 =>
                  \A i, j \in 1..N :
                      i < j => Version11Before(layers[i].id + 1,
                                               layers[j].id + 1)

\* The inputs that get an edge: every input of every node that is no
\* parameter, but input 6 of an LSTMCell of version 0.
HasEdge(k, i) ==
    ~(i = 6 /\ f.ops[k].type = "LSTMCell" /\ f.ops[k].version = 0)

\* C10: the edge list holds exactly one edge for every input of every node
\* that is no parameter, from the layer and port that produce it, except
\* for input 6 of an LSTMCell of version 0, which has none; it holds no
\* other edge, and its edges are in non-decreasing from-layer.
C10_EdgeList ==
    Completed =>
        LET E == xml_doc[1].edges
            Into(k, i) == {x \in 1..Len(E) :
                              E[x].to_layer = k - 1 /\ E[x].to_port = i}
        IN  /\ \A k \in 1..Len(f.ops) :
                  ~is_parameter(f.ops[k]) =>
                      \A i \in 0..(Len(f.ops[k].inputs) - 1) :
                          IF HasEdge(k, i)
                          THEN /\ Cardinality(Into(k, i)) = 1
                               /\ \A x \in Into(k, i) :
                                     LET src == f.ops[k].inputs[i + 1]
                                     IN  /\ E[x].from_layer = src.node - 1
                                         /\ E[x].from_port =
                                              Len(f.ops[src.node].inputs)
                                                 + src.index
                          ELSE Into(k, i) = {}
            /\ \A x \in 1..Len(E) :
                  /\ E[x].to_layer + 1 \in 1..Len(f.ops)
                  /\ ~is_parameter(f.ops[E[x].to_layer + 1])
                  /\ E[x].to_port \in
                        0..(Len(f.ops[E[x].to_layer + 1].inputs) - 1)
            /\ \A x, y \in 1..Len(E) :
                  x < y => E[x].from_layer <= E[y].from_layer

\* C10's case: the document of a function with an LSTMCell of version 0
\* that has a 7th input.
C10_Witness ==
    /\ Completed
    /\ \E k \in 1..Len(f.ops) :
          /\ f.ops[k].type = "LSTMCell" /\ f.ops[k].version = 0
          /\ Len(f.ops[k].inputs) = 7
    /\ xml_doc[1].edges # <<>>

\* C6: Hash (deterministic mode) writes the same document and the same
\* constant bytes for a graph and for the same graph built by another
\* allocation, with the same friendly names set.
C6_SameOutputForAnyAllocation ==
    earlier # <<>> =>
        /\ outcome.end = earlier[1].end
        /\ xml_doc = earlier[1].xml_doc
        /\ bin_file.buf = earlier[1].bin_file.buf

\* The input and output ports the layer of the node at place k has.
LayerOf(k) ==
    CHOOSE l \in {xml_doc[1].layers[i] : i \in 1..Len(xml_doc[1].layers)} :
        l.id = k - 1

\* C11: the layer of an LSTMCell of version 0 with a 7th input has the
\* input ports 0..5 and no port 6, its output ports are numbered from 7,
\* no edge enters its port 6, and every edge that leaves it comes from port
\* 7 + output index, which is one of its output ports.
C11_PeepholeLeavesGap ==
    Completed =>
        \A k \in 1..Len(f.ops) :
            (is_opset1_LSTMCell(f.ops[k]) /\ Len(f.ops[k].inputs) = 7) =>
                /\ LayerOf(k).input = <<0, 1, 2, 3, 4, 5>>
                /\ LayerOf(k).output =
                      [o \in 1..f.ops[k].outputs |-> 7 + o - 1]
                /\ \A x \in 1..Len(xml_doc[1].edges) :
                      LET e == xml_doc[1].edges[x]
                      IN  /\ ~(e.to_layer = k - 1 /\ e.to_port = 6)
                          /\ e.from_layer = k - 1 =>
                                \E c \in 1..Len(f.ops), i \in 1..7 :
                                    /\ i <= Len(f.ops[c].inputs)
                                    /\ f.ops[c].inputs[i].node = k
                                    /\ e.to_layer = c - 1
                                    /\ e.to_port = i - 1
                                    /\ e.from_port =
                                          7 + f.ops[c].inputs[i].index
                                    /\ \E o \in 1..Len(LayerOf(k).output) :
                                          LayerOf(k).output[o] = e.from_port

\* C11's case: a document with the layer of such an LSTMCell and an edge
\* that leaves it.
C11_Witness ==
    /\ Completed
    /\ \E k \in 1..Len(f.ops) :
          /\ is_opset1_LSTMCell(f.ops[k]) /\ Len(f.ops[k].inputs) = 7
          /\ \E x \in 1..Len(xml_doc[1].edges) :
                xml_doc[1].edges[x].from_layer = k - 1

\* C12: every dimension of an output that is dynamic in the function handed
\* to the pass is written as -1 in the output port and in the input ports
\* that read it, and every static dimension as its length.
C12_DynamicDimsWrittenAsMinusOne ==
    Completed =>
        \A k \in 1..Len(f.ops) :
            LET expected == port_dims(f.shapes[k])
            IN  /\ \A o \in 1..Len(LayerOf(k).out_dims) :
                      LayerOf(k).out_dims[o] = expected
                /\ \A c \in 1..Len(f.ops) :
                      \A p \in 1..Len(LayerOf(c).input) :
                          f.ops[c].inputs[LayerOf(c).input[p] + 1].node = k
                              => LayerOf(c).in_dims[p] = expected

\* ------------------------------------------------------------------------
\* Slice: the inferred shapes
\* ------------------------------------------------------------------------

\* How the last validation of the node ended.
LastEnd == validated[Len(validated)].end

\* start, stop, step and the axes of the node are all known constants.
AllConstant(n) ==
    /\ n.start.const /\ n.stop.const /\ n.step.const
    /\ n.axes.present => n.axes.const

\* The axes the node slices: those given, or the leading ones.
AxesOf(n) ==
    IF n.axes.present THEN n.axes.values ELSE get_default_const_axes(n.start)

\* The position in the data shape of the i-th sliced axis.
AxisAt(n, i) == norm_axis(AxesOf(n)[i], Len(n.data.shape)) + 1

\* The node was validated with success, on data of static rank and with
\* constant start, stop, step and axes.
Inferred ==
    /\ validated # <<>>
    /\ LastEnd = Ok
    /\ slice.data.rank_static
    /\ AllConstant(slice)

\* The sliced length of an axis of dim_size elements, in the words of the
\* contract: the least q with q * |step| >= count.
SlicedLength(start, stop, step, dim_size) ==
    LET up(v) == IF v < 0 THEN v + dim_size ELSE v
        lo == IF up(start) < 0 THEN 0
              ELSE IF up(start) > dim_size THEN dim_size ELSE up(start)
        hi == IF up(stop) < -1 THEN -1
              ELSE IF up(stop) > dim_size THEN dim_size ELSE up(stop)
        reach == IF step < 0
                 THEN (IF dim_size - 1 < lo THEN dim_size - 1 ELSE lo) - hi
                 ELSE (IF dim_size < hi THEN dim_size ELSE hi) - lo
        count == IF reach < 0 THEN 0 ELSE reach
    IN  CHOOSE q \in 0..count :
            /\ q * Abs(step) >= count
            /\ q = 0 \/ (q - 1) * Abs(step) < count

\* C13: with constant start, stop, step and axes, a sliced axis of static
\* length dim_size gets the output length ceil(count / |step|) of the
\* normalized and clipped start and stop, and that length is between 0
\* and dim_size.
C13_StaticAxisLength ==
    Inferred =>
        \A i \in 1..Len(AxesOf(slice)) :
            LET dim == slice.data.shape[AxisAt(slice, i)]
                out == slice.output.shape[AxisAt(slice, i)]
            IN  dim_is_static(dim) =>
                    /\ dim_is_static(out)
                    /\ get_length(out) =
                          SlicedLength(slice.start.values[i],
                                       slice.stop.values[i],
                                       slice.step.values[i], get_length(dim))
                    /\ get_length(out) \in 0..get_length(dim)

\* Every second element of an axis of three, from the third last on, makes
\* two.
C13_Witness ==
    /\ Inferred
    /\ slice.data.shape = <<Dimension(3)>>
    /\ slice.start.values = <<-3>>
    /\ slice.stop.values = <<INT32_MAX>>
    /\ slice.step.values = <<2>>
    /\ slice.output.shape = <<Dimension(2)>>

\* C14: the validation of a Slice whose step is a constant that contains 0
\* fails, whatever the data shape and whether or not start, stop and the
\* axes are constant.
C14_ZeroStepFails ==
    (/\ validated # <<>>
     /\ slice.step.const
     /\ \E i \in 1..Len(slice.step.values) : slice.step.values[i] = 0)
        => LastEnd # Ok

\* Two entries of the constant axes name the same axis of the data: they
\* are equal, or equal once the negative one is counted from the rank.
NamesAnAxisTwice(n) ==
    /\ n.axes.present
    /\ n.axes.const
    /\ \E i, j \in 1..Len(n.axes.values) :
          /\ i # j
          /\ \/ n.axes.values[i] = n.axes.values[j]
             \/ /\ n.data.rank_static
                /\ axis_in_range(n.axes.values[i], Len(n.data.shape))
                /\ axis_in_range(n.axes.values[j], Len(n.data.shape))
                /\ norm_axis(n.axes.values[i], Len(n.data.shape))
                      = norm_axis(n.axes.values[j], Len(n.data.shape))

\* C15: the validation of a Slice whose constant axes name the same axis
\* twice fails, also when the two entries differ by negative-index form
\* and whether or not start, stop and step are constant.
C15_DuplicateAxesFail ==
    (validated # <<>> /\ NamesAnAxisTwice(slice)) => LastEnd # Ok

\* The i-th sliced axis has a length without upper bound, and start, stop
\* and step have the signs given.
UnboundedCase(i, step_up, start_neg, stop_neg) ==
    /\ Inferred
    /\ i \in 1..Len(AxesOf(slice))
    /\ ~has_upper_bound(slice.data.shape[AxisAt(slice, i)])
    /\ IF step_up THEN slice.step.values[i] > 0 ELSE slice.step.values[i] < 0
    /\ IF start_neg THEN slice.start.values[i] < 0
       ELSE slice.start.values[i] > 0
    /\ IF stop_neg THEN slice.stop.values[i] < 0
       ELSE slice.stop.values[i] > 0

\* The output dimension of the i-th sliced axis.
OutputAt(i) == slice.output.shape[AxisAt(slice, i)]

\* C16 as stated: on an axis without upper bound, (step > 0, start < 0,
\* stop > 0) gives [0, stop], (step < 0, start > 0, stop < 0) gives
\* [0, start + 1], and the two other mixed-sign cases give a fully dynamic
\* dimension.
C16_UnboundedAxisAsStated ==
    \A i \in 1..Len(slice.start.values) :
        /\ UnboundedCase(i, TRUE, TRUE, FALSE)
              => OutputAt(i) = Interval(0, slice.stop.values[i])
        /\ UnboundedCase(i, FALSE, FALSE, TRUE)
              => /\ OutputAt(i).min = 0
                 /\ OutputAt(i).max - 1 = slice.start.values[i]
        /\ UnboundedCase(i, FALSE, TRUE, FALSE)
              => OutputAt(i) = Dimension(-1)
        /\ UnboundedCase(i, TRUE, FALSE, TRUE)
              => OutputAt(i) = Dimension(-1)

\* C16, amended: on an axis without upper bound, (step > 0, start < 0,
\* stop > 0) gives [0, stop] when stop < INT32_MAX, (step < 0, start > 0,
\* stop < 0) gives [0, start + 1] when start < INT32_MAX, and both give a
\* fully dynamic dimension otherwise; the two other mixed-sign cases give
\* a fully dynamic dimension; none of the four depends on the axis length.
C16_UnboundedAxis ==
    \A i \in 1..Len(slice.start.values) :
        /\ UnboundedCase(i, TRUE, TRUE, FALSE)
              => OutputAt(i) = IF slice.stop.values[i] < INT32_MAX
                               THEN Interval(0, slice.stop.values[i])
                               ELSE Dimension(-1)
        /\ UnboundedCase(i, FALSE, FALSE, TRUE)
              => OutputAt(i) = IF slice.start.values[i] < INT32_MAX
                               THEN Interval(0, slice.start.values[i] + 1)
                               ELSE Dimension(-1)
        /\ UnboundedCase(i, FALSE, TRUE, FALSE)
              => OutputAt(i) = Dimension(-1)
        /\ UnboundedCase(i, TRUE, FALSE, TRUE)
              => OutputAt(i) = Dimension(-1)

\* From the second last element on and up to the second, on an axis of at
\* least two elements: at most two elements.
C16_Witness ==
    /\ UnboundedCase(1, TRUE, TRUE, FALSE)
    /\ slice.data.shape = <<Interval(2, -1)>>
    /\ slice.start.values = <<-2>>
    /\ slice.stop.values = <<2>>
    /\ slice.output.shape = <<Interval(0, 2)>>

\* The dimension out holds the length n.
Holds(out, n) == out.min <= n /\ (has_upper_bound(out) => n <= out.max)

\* C17: with constant start, stop, step and axes, the output dimension of
\* a sliced axis whose length is an interval [lo, hi] is an interval with
\* out_min <= out_max that holds the sliced length of every length d in
\* [lo, hi].
C17_SoundOverApproximation ==
    Inferred =>
        \A i \in 1..Len(AxesOf(slice)) :
            LET dim == slice.data.shape[AxisAt(slice, i)]
            IN  has_upper_bound(dim) =>
                    /\ has_upper_bound(OutputAt(i))
                          => OutputAt(i).min <= OutputAt(i).max
                    /\ \A d \in dim.min..dim.max :
                          Holds(OutputAt(i),
                                get_sliced_dim_size(slice.start.values[i],
                                                    slice.stop.values[i],
                                                    slice.step.values[i],
                                                    Int64(d))[2])

\* The output of the node after its k-th validation.
OutputAfter(k) ==
    IF k < Len(validated) THEN validated[k + 1].before.output
    ELSE slice.output

\* C18: a validation run again on the node, its inputs as they were, ends
\* as the first one did: with the same output element type and partial
\* shape, or with the same validation failure.
C18_ValidationRepeats ==
    \A k \in 2..Len(validated) :
        /\ validated[k].end = validated[1].end
        /\ OutputAfter(k) = OutputAfter(1)

\* Validated twice with success, the output shape not that of the data.
C18_Witness ==
    /\ Len(validated) = 2
    /\ Inferred
    /\ validated[1].end = Ok
    /\ slice.data.shape = <<Dimension(3)>>
    /\ slice.output = Tensor("f32", TRUE, <<Dimension(2)>>)

\* The node after its k-th validation.
NodeAfter(k) == IF k < Len(validated) THEN validated[k + 1].before ELSE slice

\* The data of n has a static rank r, and a constant axis is outside
\* [-r, r-1] or the axes are more than r.
BadAxes(n) ==
    /\ n.data.rank_static
    /\ n.axes.present
    /\ \/ Len(n.axes.values) > Len(n.data.shape)
       \/ /\ n.axes.const
          /\ \E i \in 1..Len(n.axes.values) :
                ~axis_in_range(n.axes.values[i], Len(n.data.shape))

\* C19: on data of static rank r, a constant axis outside [-r, r-1] or
\* axes longer than r make the validation fail, and the failed validation
\* leaves the output element type, the output shape and the
\* shape-relevance flags of the inputs as they were.
C19_BadAxesFailAndLeaveNode ==
    \A k \in 1..Len(validated) :
        BadAxes(validated[k].before) =>
            /\ validated[k].end # Ok
            /\ NodeAfter(k).output = validated[k].before.output
            /\ NodeAfter(k).relevant = validated[k].before.relevant

\* ------------------------------------------------------------------------
\* AddFakeQuantizeFusion: the graph after the callback
\* ------------------------------------------------------------------------

\* C20: when the callback returns false the graph is as it was: no node
\* was created or registered, no input reads another node, no friendly
\* name and no runtime info has changed.
C20_DeclinedLeavesGraph ==
    matcher.returned = <<FALSE>> =>
        /\ Len(graph.nodes) = Len(matcher.before.nodes)
        /\ graph.m_new_nodes = matcher.before.m_new_nodes
        /\ \A id \in 1..Len(matcher.before.nodes) :
              /\ graph.nodes[id].inputs = matcher.before.nodes[id].inputs
              /\ graph.nodes[id].friendly = matcher.before.nodes[id].friendly
              /\ graph.nodes[id].rt_info = matcher.before.nodes[id].rt_info
        /\ graph = matcher.before

\* Declined on data of 32 bits for a constant of shape (1, 3, 1, 1) that
\* is added to the output of a convolution.
C20_Witness ==
    /\ matcher.returned = <<FALSE>>
    /\ graph.nodes[1].et = "f32"
    /\ graph.nodes[1].type = "Convolution"
    /\ graph.nodes[2].shape = <<1, 3, 1, 1>>
    /\ ~get_single_value(graph.nodes[2])

\* The callback has returned true.
Fused == matcher.returned = <<TRUE>>

\* The FakeQuantize the callback has registered.
NewFq == graph.m_new_nodes[Len(graph.m_new_nodes)]

\* The values of a constant, one for each of n elements.
Expand(values, n) == [i \in 1..n |-> values[IF Len(values) = 1 THEN 1 ELSE i]]

\* The node id of the graph is the input from of the old FakeQuantize
\* minus the constant of the Add: a Subtract of the two, or the constant
\* of their difference.
IsMinusConstant(id, from) ==
    LET c == matcher.before.nodes[matcher.map.const]
        n == shape_size(c.shape)
        node == graph.nodes[id]
    IN  IF node.type = "Subtract"
        THEN /\ node.inputs[1] = from
             /\ constant_values(graph, node.inputs[2]) # <<>>
             /\ Expand(constant_values(graph, node.inputs[2])[1], n)
                    = Expand(c.values, n)
        ELSE /\ node.type = "Constant"
             /\ matcher.before.nodes[from].type = "Constant"
             /\ Expand(node.values, n)
                    = [i \in 1..n |->
                          Expand(matcher.before.nodes[from].values, n)[i]
                              - Expand(c.values, n)[i]]

\* C21: when the callback returns true, every input that read the old
\* FakeQuantize reads the new one, no input reads the old one, and the
\* new FakeQuantize reads the input of the Add that is not the constant,
\* input_low and input_high minus the constant, and output_low,
\* output_high, levels and friendly name of the old one.
C21_FusedReplacesFakeQuantize ==
    Fused =>
        LET old == matcher.before.nodes[matcher.map.fq]
            add == matcher.before.nodes[matcher.map.add]
            new == graph.nodes[NewFq]
        IN  /\ \A id \in 1..Len(matcher.before.nodes) :
                  /\ Len(graph.nodes[id].inputs)
                        = Len(matcher.before.nodes[id].inputs)
                  /\ \A k \in 1..Len(matcher.before.nodes[id].inputs) :
                        graph.nodes[id].inputs[k] =
                            IF matcher.before.nodes[id].inputs[k]
                                  = matcher.map.fq
                            THEN NewFq
                            ELSE matcher.before.nodes[id].inputs[k]
            /\ \A id \in 1..Len(graph.nodes) :
                  \A k \in 1..Len(graph.nodes[id].inputs) :
                      graph.nodes[id].inputs[k] # matcher.map.fq
            /\ NewFq > Len(matcher.before.nodes)
            /\ new.type = "FakeQuantize"
            /\ new.inputs[1] \in {add.inputs[k] : k \in 1..2}
                                    \ {matcher.map.const}
            /\ IsMinusConstant(new.inputs[2], old.inputs[2])
            /\ IsMinusConstant(new.inputs[3], old.inputs[3])
            /\ new.inputs[4] = old.inputs[4]
            /\ new.inputs[5] = old.inputs[5]
            /\ new.values = old.values
            /\ new.friendly = old.friendly

\* ------------------------------------------------------------------------
\* Node: instance ids under concurrent constructions
\* ------------------------------------------------------------------------

\* The nodes that have an id: those constructed and those under
\* construction past the fetch_add.
Numbered ==
    {built[i] : i \in 1..Len(built)}
        \cup {[m_instance_id |-> threads[t].m_instance_id,
                started |-> threads[t].started, finished |-> 2 * MaxNodes + 1] :
                t \in {u \in 1..NumThreads : threads[u].pc = "numbered"}}

\* The ids are distinct and taken from the counter, a construction begun
\* after another has finished has the larger id, and operator< is a strict
\* total order.
DistinctOrderedIds ==
    /\ \A a \in Numbered : a.m_instance_id < m_next_instance_id
    /\ \A a, b \in Numbered :
          /\ a # b => a.m_instance_id # b.m_instance_id
          /\ a.finished < b.started => node_less(a, b)
          /\ a # b => (node_less(a, b) /\ ~node_less(b, a))
                          \/ (node_less(b, a) /\ ~node_less(a, b))

\* C22: under any interleaving of constructions on several threads every
\* node has a distinct instance id taken from the shared counter, the
\* counter never decreases, and a node whose construction begins after
\* that of another has finished has the larger id.
C22_InstanceIds ==
    /\ []DistinctOrderedIds
    /\ [][m_next_instance_id' >= m_next_instance_id]_vars

\* Two constructions overlap on two threads and a third begins after
\* both have finished.
C22_Witness ==
    /\ Len(built) = 3
    /\ built[1].started < built[2].started
    /\ built[2].started < built[1].finished
    /\ built[2].m_instance_id < built[1].m_instance_id
    /\ built[3].started > built[2].finished
    /\ built[3].started > built[1].finished

\* ------------------------------------------------------------------------
\* Reverse
\* ------------------------------------------------------------------------

\* The axes the test selects, read off the test itself: the entries of the
\* list, or the positions the mask marks.
SelectedAxes ==
    {a \in 0..(Len(test.data.shape) - 1) :
        IF test.mode = "MASK" THEN test.axes.values[a + 1] = 1
        ELSE \E k \in 1..Len(test.axes.values) : test.axes.values[k] = a}

\* The coordinates of a tensor of the shape.
Coordinates(shape) ==
    {c \in [1..Len(shape) -> 0..8] : \A a \in 1..Len(shape) : c[a] < shape[a]}

\* The coordinate c mirrored on the selected axes.
Mirrored(c) ==
    [a \in 1..Len(c) |->
        IF (a - 1) \in SelectedAxes THEN test.data.shape[a] - 1 - c[a]
        ELSE c[a]]

\* The element of the buffer at the coordinate c.
ElementAt(buffer, c) ==
    LET shape == test.data.shape
        position == IF Len(c) = 1 THEN c[1]
                    ELSE IF Len(c) = 2 THEN c[1] * shape[2] + c[2]
                    ELSE (c[1] * shape[2] + c[2]) * shape[3] + c[3]
    IN  buffer[position + 1]

\* C23: Reverse moves the element at coordinate c to the coordinate that
\* has dim_a - 1 - c_a on every selected axis a and c_a elsewhere, for axes
\* given as a list or as a mask; the result is the hardcoded reference of
\* the test where there is one; with no axis selected it is the input, and
\* Reverse applied to its own output gives the input back.
C23_ReverseMirrors ==
    Len(outputs) >= 1 =>
        /\ Len(outputs[1]) = Len(test.data.values)
        /\ \A c \in Coordinates(test.data.shape) :
              ElementAt(outputs[1], Mirrored(c)) = ElementAt(test.data.values, c)
        /\ test.expected # <<>> => outputs[1] = test.expected
        /\ SelectedAxes = {} => outputs[1] = test.data.values
        /\ Len(outputs) = 2 => outputs[2] = test.data.values

\* reverse_3d_02 of generateParams inferred twice, and a mask on a tensor
\* of other dimensions.
C23_Witness ==
    /\ Len(outputs) = 2
    /\ test.data.shape = <<2, 4, 3>>
    /\ test.axes.values = <<0, 2>>
    /\ outputs[1] # test.data.values
    /\ outputs[1][1] = 14

\* The construction falls in one of the four cases: the axes of index mode
\* not 1-D, a 1-D mask of another length than the rank, a constant axis out
\* of the rank, more axis entries than the rank.
MustThrow ==
    \/ test.mode = "INDEX" /\ Len(test.axes.shape) # 1
    \/ /\ test.mode = "MASK" /\ Len(test.axes.shape) = 1
       /\ test.axes.shape[1] # Len(test.data.shape)
    \/ /\ test.mode = "INDEX" /\ test.axes.is_constant
       /\ \E k \in 1..Len(test.axes.values) :
             test.axes.values[k] >= Len(test.data.shape)
    \/ /\ test.mode = "INDEX"
       /\ Len(test.axes.values) > Len(test.data.shape)

\* C24: constructing a Reverse node raises NodeValidationFailure, and no
\* function is made nor inferred, when the axes input of index mode is not
\* 1-D, when a 1-D mask has another length than the data rank, when a
\* constant axis of index mode is not below the data rank, and when index
\* mode has more axis entries than the data rank.
C24_ReverseThrows ==
    (made # <<>> /\ MustThrow) =>
        /\ made[1].status = "NodeValidationFailure"
        /\ outputs = <<>>

\* The construction has thrown for a list of four axes, all below the rank,
\* on data of rank 3, the list not a Constant.
C24_Witness ==
    /\ made # <<>>
    /\ made[1].status = "NodeValidationFailure"
    /\ test.mode = "INDEX"
    /\ ~test.axes.is_constant
    /\ test.axes.values = <<0, 0, 1, 1>>
    /\ Len(test.data.shape) = 3

\* ------------------------------------------------------------------------
\* The bytes at a returned offset
\* ------------------------------------------------------------------------

\* The payload of the i-th call lies inside the data written after the
\* start of the blob, at the offset the call returned.
PayloadAtOffset(i) ==
    LET size == Len(Mem[calls[i].ptr])
    IN  /\ calls[i].offset >= 0
        /\ writer.m_blob_offset + calls[i].offset + size
              <= Len(writer.m_binary_output.buf)
        /\ BytesAt(writer, calls[i].offset, size) = Mem[calls[i].ptr]

\* C25: for every write(ptr, size) call, whether or not an earlier offset
\* is reused, the size bytes of the binary stream that start at the start
\* of the blob plus the returned offset are the payload, and they lie
\* inside the data written so far.
C25_PayloadAtReturnedOffset ==
    \A i \in 1..Len(calls) : PayloadAtOffset(i)

\* ------------------------------------------------------------------------
\* The function after a pass
\* ------------------------------------------------------------------------

\* C26: serialization does not change the function: after Serialize,
\* StreamSerialize or Hash has returned or raised, every node has the
\* attributes it had before the call, the explicit pads_begin and pads_end
\* of a node with an auto_pad mode among them, and the output partial
\* shapes it had, interval-bounded dimensions among them.
C26_FunctionUnchanged ==
    outcome.pass # "none" =>
        /\ left.attributes = f.attributes
        /\ left.shapes = f.shapes
        /\ left = f

\* ------------------------------------------------------------------------
\* The names of the layers
\* ------------------------------------------------------------------------

\* The names written for the layers before the i-th of the document.
EmittedBefore(i) ==
    {xml_doc[1].layers[j].name.name :
        j \in {x \in 1..(i - 1) : xml_doc[1].layers[x].name.has}}

\* C27: within one serialized function the names of the layers written are
\* pairwise distinct whatever the friendly names are: a layer has the
\* friendly name of its node when no earlier layer has it, and else that
\* name followed by the smallest k >= 0 that gives a name no earlier layer
\* has; k is below the number of earlier layers, so the search ends.
C27_LayerNamesDistinct ==
    xml_doc # <<>> =>
        LET layers == xml_doc[1].layers
        IN  \A i \in 1..Len(layers) :
                layers[i].name.has =>
                    LET base == get_friendly_name(f.ops[layers[i].id + 1])
                        name == layers[i].name.name
                    IN  /\ name \notin EmittedBefore(i)
                        /\ base \notin EmittedBefore(i) => name = base
                        /\ base \in EmittedBefore(i) =>
                              \E k \in 0..(i - 1) :
                                  /\ name = base \o to_string(k)
                                  /\ \A j \in 0..(k - 1) :
                                        base \o to_string(j)
                                            \in EmittedBefore(i)

\* The layers x0, x, x1 were written for the friendly names x0, x, x: the
\* suffix 0 was taken already.
C27_Witness ==
    /\ xml_doc # <<>>
    /\ f.ops[1].friendly = <<"x", "0">>
    /\ f.ops[2].friendly = <<"x">>
    /\ f.ops[3].friendly = <<"x">>
    /\ xml_doc[1].layers[3].name.has
    /\ xml_doc[1].layers[3].name.name = <<"x", "1">>

\* ------------------------------------------------------------------------
\* ONNXModelEditor: the edge mapper and the model
\* ------------------------------------------------------------------------

\* C28: after any sequence of operations, whenever the editor consults its
\* edge mapper, in a query, in the check of set_tensor_name that the new
\* name is not used by another tensor, or in the lookup of set_node_name,
\* the mapper was built from the current model: it was rebuilt after the
\* construction and after the last operation that changes the model.
C28_MapperBuiltFromCurrentModel ==
    \A i \in 1..Len(consulted) :
        /\ consulted[i].m_is_mapper_updated
        /\ consulted[i].m_edge_mapper = EdgeMapper(consulted[i].model)

\* ------------------------------------------------------------------------
\* The checksum of a hash stream
\* ------------------------------------------------------------------------

\* C29: the checksum depends only on the bytes written: two sequences of
\* write calls whose concatenated bytes are equal leave the same m_res,
\* however the bytes are split into the calls.
C29_ChecksumOfBytesOnly ==
    xmlHash.taken = otherHash.taken => xmlHash.m_res = otherHash.m_res

\* ------------------------------------------------------------------------
\* skipped_branch_memory_dependencies: the restrictions added
\* ------------------------------------------------------------------------

\* run has returned.
SkipDone == itrB = Len(program.processing_order) + 1

\* The processing number of a node, as the place where the order has it.
NumberOf(node) ==
    CHOOSE i \in 1..Len(program.processing_order) : program.processing_order[i] = node

\* The largest processing number among the users of B.
LastUserNumber(B) ==
    CHOOSE n \in {NumberOf(usr) : usr \in program.users[B]} :
        \A usr \in program.users[B] : NumberOf(usr) <= n

\* A lies between B and the last of the users of B.
Between(A, B) ==
    /\ program.users[B] # {}
    /\ NumberOf(B) < NumberOf(A)
    /\ NumberOf(A) < LastUserNumber(B)

\* A is processed after B, whose users are all processed before B.
AfterUsed(A, B) ==
    /\ program.users[B] # {}
    /\ NumberOf(B) < NumberOf(A)
    /\ LastUserNumber(B) < NumberOf(B)

\* When run has returned the calls made are those of the pairs (A, B) with
\* A between B and the last user of B, in both directions.
RestrictionsBetween ==
    SkipDone =>
        \A A, B \in 1..Len(program.processing_order) :
            /\ Between(A, B) => /\ <<A, B>> \in memory_dependencies
                                /\ <<B, A>> \in memory_dependencies
            /\ <<A, B>> \in memory_dependencies =>
                  Between(A, B) \/ Between(B, A)

RestrictionsRequested ==
    SkipDone =>
        \A A, B \in 1..Len(program.processing_order) :
            /\ (Between(A, B) \/ AfterUsed(A, B)) =>
                  /\ <<A, B>> \in memory_dependencies
                  /\ <<B, A>> \in memory_dependencies
            /\ <<A, B>> \in memory_dependencies =>
                  \/ Between(A, B) \/ AfterUsed(A, B)
                  \/ Between(B, A) \/ AfterUsed(B, A)

=============================================================================
